---- MODULE Spec2Model ----
(***************************************************************************)
(* virgo4-search-ws: the federated search handler (ServiceContext.Search), *)
(* its per-pool tasks, the suggestion task and the three orderings of pool *)
(* results (bySequence, byName, byConfidence).                             *)
(***************************************************************************)
EXTENDS Integers, Sequences, FiniteSets, TLC

\* ------------------------------------------------------------------ bounds

\* Pools in the registry (the pool universe of one request).
MaxPools == 2
\* Largest pagination.total a pool reports.
MaxTotal == 1
\* Longest list of pool results handed to a sort on its own.
MaxLen == 3

\* ------------------------------------------------------- program constants

StatusOK == 200
StatusCreated == 201
StatusBadRequest == 400
StatusNotFound == 404
StatusRequestTimeout == 408
StatusInternalServerError == 500
StatusNotImplemented == 501
StatusServiceUnavailable == 503

\* ------------------------------------------------------------ pool universe

\* dbPool.Name of the k-th registry row (pool ids are short symbolic names).
PoolNames == <<"c", "a", "d", "b", "e">>
\* dbPool.PublicURL of the k-th registry row.
PoolURLs == <<"uc", "ua", "ud", "ub", "ue">>
\* dbPool.PrivateURL of the k-th registry row.
PoolPrivateURLs == <<"pc", "pa", "pd", "pb", "pe">>

PoolIdx == 1..MaxPools

\* pool: V4ID.ID, V4ID.URL, PrivateURL, Sequence as identifyPool fills them
\* from the registry row; rows are numbered by their sequence.
PoolOf(k) ==
    [ID |-> PoolNames[k], URL |-> PoolURLs[k],
     PrivateURL |-> PoolPrivateURLs[k], Sequence |-> k]

\* Byte-wise order of Go strings, on the names of the universe and one name
\* ("zz") that is in no registry.
NameRank(n) ==
    CASE n = "a" -> 1 [] n = "b" -> 2 [] n = "c" -> 3
      [] n = "d" -> 4 [] n = "e" -> 5 [] OTHER -> 6

StrLess(x, y) == NameRank(x) < NameRank(y)

\* ------------------------------------------------------------ pool results

\* Debug is the debug map reduced to its max_score entry: <<>> when the key
\* is absent (or not a number), <<v>> when it is v.
NoDebug == <<>>

\* ConfidenceIndex: position of the confidence in [low medium high exact],
\* 0 when there is no match.
ConfidenceLevels == <<"low", "medium", "high", "exact">>

ConfidenceIndex(pr) ==
    IF \E idx \in 1..Len(ConfidenceLevels) : ConfidenceLevels[idx] = pr.Confidence
    THEN (CHOOSE idx \in 1..Len(ConfidenceLevels) :
              ConfidenceLevels[idx] = pr.Confidence) - 1
    ELSE 0

\* maxScore, _ := Debug["max_score"].(float64): 0 when absent.
MaxScore(pr) == IF Len(pr.Debug) = 0 THEN 0 ELSE pr.Debug[1]

\* ------------------------------------------------------------- comparators

\* The pool a result resolves to in bySequence.Less: the loop keeps the last
\* pool whose id is the result's PoolName; 0 stands for nil.
LookupPool(pools, name) ==
    IF \E k \in 1..Len(pools) : pools[k].ID = name
    THEN CHOOSE k \in 1..Len(pools) :
             /\ pools[k].ID = name
             /\ \A m \in (k+1)..Len(pools) : pools[m].ID # name
    ELSE 0

\* A by-sequence comparison that orders by pool id.
bySequenceLessByName(pools, ri, rj) == StrLess(ri.PoolName, rj.PoolName)

bySequenceLess(pools, ri, rj) ==
    LET a == LookupPool(pools, ri.PoolName)
        b == LookupPool(pools, rj.PoolName)
    IN  IF a = 0 \/ b = 0 THEN FALSE
        ELSE pools[a].Sequence < pools[b].Sequence

byNameLess(ri, rj) == StrLess(ri.PoolName, rj.PoolName)

\* byConfidence.Less without the bubbling of the target URL.
byConfidenceLessNoTarget(targetURL, ri, rj) ==
    IF ConfidenceIndex(ri) < ConfidenceIndex(rj) THEN FALSE
    ELSE IF ConfidenceIndex(ri) > ConfidenceIndex(rj) THEN TRUE
    ELSE IF MaxScore(ri) < MaxScore(rj) THEN FALSE
    ELSE IF MaxScore(ri) > MaxScore(rj) THEN TRUE
    ELSE ri.Total > rj.Total

\* byConfidence.Less with the max_score tie-break left out.
byConfidenceLessNoScore(targetURL, ri, rj) ==
    IF targetURL = ri.ServiceURL THEN TRUE
    ELSE IF targetURL = rj.ServiceURL THEN FALSE
    ELSE IF ConfidenceIndex(ri) < ConfidenceIndex(rj) THEN FALSE
    ELSE IF ConfidenceIndex(ri) > ConfidenceIndex(rj) THEN TRUE
    ELSE ri.Total > rj.Total

\* byConfidence.Less with >= in place of > in the last comparison.
byConfidenceLessTotalGE(targetURL, ri, rj) ==
    IF targetURL = ri.ServiceURL THEN TRUE
    ELSE IF targetURL = rj.ServiceURL THEN FALSE
    ELSE IF ConfidenceIndex(ri) < ConfidenceIndex(rj) THEN FALSE
    ELSE IF ConfidenceIndex(ri) > ConfidenceIndex(rj) THEN TRUE
    ELSE IF MaxScore(ri) < MaxScore(rj) THEN FALSE
    ELSE IF MaxScore(ri) > MaxScore(rj) THEN TRUE
    ELSE ri.Total >= rj.Total

\* byConfidence.Less with >= in place of > in the confidence comparison.
byConfidenceLessConfidenceGE(targetURL, ri, rj) ==
    IF targetURL = ri.ServiceURL THEN TRUE
    ELSE IF targetURL = rj.ServiceURL THEN FALSE
    ELSE IF ConfidenceIndex(ri) < ConfidenceIndex(rj) THEN FALSE
    ELSE IF ConfidenceIndex(ri) >= ConfidenceIndex(rj) THEN TRUE
    ELSE IF MaxScore(ri) < MaxScore(rj) THEN FALSE
    ELSE IF MaxScore(ri) > MaxScore(rj) THEN TRUE
    ELSE ri.Total > rj.Total

byConfidenceLess(targetURL, ri, rj) ==
    IF targetURL = ri.ServiceURL THEN TRUE
    ELSE IF targetURL = rj.ServiceURL THEN FALSE
    ELSE IF ConfidenceIndex(ri) < ConfidenceIndex(rj) THEN FALSE
    ELSE IF ConfidenceIndex(ri) > ConfidenceIndex(rj) THEN TRUE
    ELSE IF MaxScore(ri) < MaxScore(rj) THEN FALSE
    ELSE IF MaxScore(ri) > MaxScore(rj) THEN TRUE
    ELSE ri.Total > rj.Total

\* A sort strategy: which comparator, with the comparator's own fields.
Strategy(kind, targetURL, pools) ==
    [kind |-> kind, targetURL |-> targetURL, pools |-> pools]

Less(st, ri, rj) ==
    CASE st.kind = "bySequence" -> bySequenceLess(st.pools, ri, rj)
      [] st.kind = "byName" -> byNameLess(ri, rj)
      [] st.kind = "byConfidence" -> byConfidenceLess(st.targetURL, ri, rj)

\* ------------------------------------------------------------- sort.Sort

Swap(s, i, j) == [s EXCEPT ![i] = s[j], ![j] = s[i]]

\* for j := i; j > a && data.Less(j, j-1); j-- { data.Swap(j, j-1) }
RECURSIVE InsertLeft(_, _, _)
InsertLeft(st, s, j) ==
    IF j > 1 /\ Less(st, s[j], s[j-1])
    THEN InsertLeft(st, Swap(s, j, j-1), j - 1)
    ELSE s

\* for i := a + 1; i < b; i++ { ... }: sort.Sort on the short lists of pool
\* results is this insertion sort.
RECURSIVE InsertionSortFrom(_, _, _)
InsertionSortFrom(st, s, i) ==
    IF i > Len(s) THEN s
    ELSE InsertionSortFrom(st, InsertLeft(st, s, i), i + 1)

\* for i := a + 6; i < b; i++ { if data.Less(i, i-6) { data.Swap(i, i-6) } }:
\* the pass with gap 6 that sort.Sort of go 1.14 (go.mod) makes ahead of the
\* insertion sort on a list of 7 to 12 elements; it does nothing on fewer.
RECURSIVE ShellPassFrom(_, _, _)
ShellPassFrom(st, s, i) ==
    IF i > Len(s) THEN s
    ELSE ShellPassFrom(st, IF Less(st, s[i], s[i-6]) THEN Swap(s, i, i-6) ELSE s,
                       i + 1)

\* A sort that leaves the list as it arrived.
SortNothing(st, s) == s

\* sort.Sort on a list of at most 12 elements.
Sort(st, s) == InsertionSortFrom(st, ShellPassFrom(st, s, 7), 2)

\* ------------------------------------------------------------------ state

VARIABLES
    req,                  \* the client's search request (body and query parameters)
    pools,                \* the pool set the middleware put in the request context
    pc,                   \* where the request is: middleware, handler, collect, done
    status,               \* HTTP status of the response, 0 while there is none
    errMsg,               \* message id of a request-level error response
    out,                  \* the MasterResponse being built
    arrival,              \* out.Results as collected, before sort.Sort
    outstandingRequests,  \* completions the coordinator still waits for
    contentLanguage,      \* the response's Content-Language
    task,                 \* per pool of the pool set: the searchPool goroutine
    requested,            \* private URLs a search request was POSTed to
    sug,                  \* the getSuggestions goroutine
    sortIn,               \* a list of pool results handed to a sort on its own
    sortSt,               \* the strategy of that sort
    sortOut,              \* the list after one sort.Sort
    sortAgain,            \* the list after a second sort.Sort
    sortPc,               \* off, input, sorted, resorted
    mergeIn,              \* filterResps handed to the filter merge on its own
    mergeOut,             \* the merged catalog
    mergeAgain,           \* the catalog merged from the catalog
    mergePc,              \* off, input, merged, remerged
    refreshPc,            \* refreshCache: off, sleep, collect, store, storing
    refreshCount,         \* refreshes monitorFilters has started
    filterPools,          \* the pool set of the refresh under way
    filterTask,           \* per source kind: the getPoolFilters goroutine
    filterResps,          \* the responses collected, by source kind
    filterOutstanding,    \* completions refreshCache still waits for
    newFilters,           \* the catalog refreshCache merged (combined)
    currentFilters,       \* filterCache.currentFilters: a slice header
    refreshResult,        \* how the last refresh ended: none, aborted, published
    snapshots,            \* every catalog a refresh has set out to publish
    observed,             \* what the last GetSearchFilters returned
    acceptHeader,         \* the request's Accept-Language header
    rows,                 \* the registry rows lookupPools read for the source set
    idTask,               \* per registry row: the identifyPool goroutine
    idOutstanding,        \* identify results lookupPools still waits for
    idPools,              \* the rows lookupPools appended, in arrival order
    psPool,               \* the pool of a searchPool call on its own
    psReq,                \* the client request handed to that call
    psOutcome,            \* what the pool's answer to that call is
    psSent,               \* the request the call sent: url, client, body
    psResult,             \* the PoolResult the call wrote to the channel
    psPc,                 \* off, input, done
    svcPools,             \* svc.Pools of the registration interface
    regCall,              \* the last registration call: its inputs
    regBefore,            \* svc.Pools when that call came in
    regStatus,            \* the status that call answered with
    regBody,              \* the text that call answered with
    regCount,             \* registration calls so far, -1 when there is no interface
    dbSources,            \* the rows of the registry for one source set
    dbPending,            \* rows read whose identify result is not collected
    dbPools,              \* the pool set lookupPools builds from these rows
    dbPc,                 \* off, query, collect, done
    concReq,              \* per concurrent search request: the locals of Search
    concTask              \* per request: its getSuggestions (0) and searchPool goroutines

mergeVars == <<mergeIn, mergeOut, mergeAgain, mergePc>>

filterVars == <<refreshPc, refreshCount, filterPools, filterTask, filterResps,
                filterOutstanding, newFilters, currentFilters, refreshResult,
                snapshots, observed>>

identVars == <<acceptHeader, rows, idTask, idOutstanding, idPools>>

poolSearchVars == <<psPool, psReq, psOutcome, psSent, psResult, psPc>>

\* The variables of the operations modelled on their own.
registryVars == <<svcPools, regCall, regBefore, regStatus, regBody, regCount>>

sourceVars == <<dbSources, dbPending, dbPools, dbPc>>

concVars == <<concReq, concTask>>

restVars == <<poolSearchVars, registryVars, sourceVars, concVars>>

\* The state outside a search request and a sort.
auxVars == <<mergeVars, filterVars, identVars, restVars>>

vars == <<req, pools, pc, status, errMsg, out, arrival, outstandingRequests,
          contentLanguage, task, requested, sug,
          sortIn, sortSt, sortOut, sortAgain, sortPc, auxVars>>

searchVars == <<req, pools, pc, status, errMsg, out, arrival, outstandingRequests,
                contentLanguage, task, requested, sug>>

sortVars == <<sortIn, sortSt, sortOut, sortAgain, sortPc>>

\* No merge on its own is under way.
MergeOff ==
    /\ mergeIn = <<>>
    /\ mergeOut = <<>>
    /\ mergeAgain = <<>>
    /\ mergePc = "off"

\* The ordered source kinds of refreshCache.
sources == <<"solr", "solr-images", "eds">>

\* A nil *v4api.PoolFacets.
NilFilters == [nil |-> TRUE, FacetList |-> <<>>]

\* A slice: its backing array and its length.
Slice(array) == [array |-> array, len |-> Len(array)]

\* No getPoolFilters goroutine.
\* No request sent.
NoRequest == [method |-> "", endpoint |-> "", body |-> "", pool |-> ""]

IdleFilterTask == [st |-> "none", pool |-> "", filters |-> NilFilters, sent |-> NoRequest]

\* The filter cache as newFilterCache makes it, its monitor not started.
FilterOff ==
    /\ refreshPc = "off"
    /\ refreshCount = 0
    /\ filterPools = <<>>
    /\ filterTask = [i \in 1..Len(sources) |-> IdleFilterTask]
    /\ filterResps = <<>>
    /\ filterOutstanding = 0
    /\ newFilters = <<>>
    /\ currentFilters = Slice(<<>>)
    /\ refreshResult = "none"
    /\ snapshots = {<<>>}
    /\ observed = <<>>

\* An identifyPool goroutine that was not started.
IdleIdentify == [st |-> "none", attempts |-> <<>>, identified |-> FALSE]

\* No lookupPools with its identify requests is modelled.
IdentOff ==
    /\ acceptHeader = ""
    /\ rows = {}
    /\ idTask = [k \in PoolIdx |-> IdleIdentify]
    /\ idOutstanding = 0
    /\ idPools = <<>>

\* No searchPool call on its own is modelled.
PoolSearchOff ==
    /\ psPool = PoolOf(1)
    /\ psReq = <<>>
    /\ psOutcome = <<>>
    /\ psSent = <<>>
    /\ psResult = <<>>
    /\ psPc = "off"

\* No call of the registration interface.
NoCall == [op |-> "none", bindOK |-> TRUE, url |-> "", ping |-> <<>>, identify |-> <<>>,
           redis |-> <<>>]

\* No registration interface is modelled.
RegistryOff ==
    /\ svcPools = <<>>
    /\ regCall = NoCall
    /\ regBefore = <<>>
    /\ regStatus = 0
    /\ regBody = ""
    /\ regCount = -1

\* No registry table is modelled.
SourcesOff ==
    /\ dbSources = {}
    /\ dbPending = {}
    /\ dbPools = <<>>
    /\ dbPc = "off"

\* No concurrent requests are modelled.
ConcOff ==
    /\ concReq = <<>>
    /\ concTask = <<>>

RestOff == PoolSearchOff /\ RegistryOff /\ SourcesOff /\ ConcOff

AuxOff == MergeOff /\ FilterOff /\ IdentOff /\ RestOff

\* ---------------------------------------------------------------- requests

\* Identifiers a client names in preferences.target_pool: none, a pool id, a
\* public URL, and one that is not registered.
TargetPools == {"", PoolNames[1], PoolURLs[1], "zz"}

\* Identifiers a client lists in preferences.exclude_pool: an id and a URL.
ExcludeIdentifiers == {PoolNames[1], PoolURLs[2]}

\* Values of the sources query parameter ("" is an absent parameter).
SourcesParams == {"", "default"}

\* A request with another value of the sources parameter.
ImagesRequest ==
    [BindOK |-> TRUE, QueryValid |-> TRUE, TargetPool |-> PoolURLs[1],
     ExcludePools |-> {}, Sources |-> "images"]

Requests ==
    [BindOK : BOOLEAN, QueryValid : BOOLEAN, TargetPool : TargetPools,
     ExcludePools : SUBSET ExcludeIdentifiers, Sources : SourcesParams]
    \cup {ImagesRequest}

\* Pool sets lookupPools can return: the identified rows in the order their
\* identify completions arrived, here in registry order or in its reverse.
PoolLists ==
    UNION { { s \in [1..n -> PoolIdx] :
                \/ \A i, j \in 1..n : i < j => s[i] < s[j]
                \/ \A i, j \in 1..n : i < j => s[i] > s[j] }
            : n \in 0..MaxPools }

\* Seq of pools from a list of registry row numbers.
PoolsOfList(s) == [i \in 1..Len(s) |-> PoolOf(s[i])]

\* ------------------------------------------------------------ HTTP outcomes

\* What a pool's response body decodes to: parses is FALSE when
\* json.Unmarshal returns an error; the fields are what it stored in the
\* result before it did.
Confidences == {"low", "high"}

\* Bodies that decode: every total with the low confidence, and an empty
\* result list with the high one.  A body that does not decode: one whose
\* pagination was stored before the error.
Bodies ==
    [parses : {TRUE}, Total : 0..MaxTotal, Confidence : {"low"}, Debug : {NoDebug}]
    \cup [parses : {TRUE}, Total : {0}, Confidence : Confidences \ {"low"},
          Debug : {NoDebug}]
    \cup [parses : {FALSE}, Total : {MaxTotal}, Confidence : {""}, Debug : {NoDebug}]

ErrorBody == [parses |-> FALSE, Total |-> 0, Confidence |-> "", Debug |-> NoDebug]

\* Texts of transport errors, as err.Error() gives them: a client timeout,
\* a refused connection, a timeout reported for a refused connection, and a
\* connection that was reset.
TimeoutText == "Client.Timeout exceeded while awaiting headers"
RefusedText == "dial tcp: connect: connection refused"
TimeoutRefusedText == "Client.Timeout exceeded after connect: connection refused"
ResetText == "read: connection reset by peer"

\* strings.Contains(text, "Timeout") and strings.Contains(text, "connection
\* refused") on the texts of the model.
ContainsTimeout(text) == text \in {TimeoutText, TimeoutRefusedText}
ContainsConnectionRefused(text) == text \in {RefusedText, TimeoutRefusedText}

\* Outcomes of httpClient.Do for a pool search: a transport error with its
\* text, or a response with a status code and a body; text is the body as
\* a string.
Outcomes ==
    { [kind |-> "error", code |-> 0, body |-> ErrorBody, text |-> t]
        : t \in {TimeoutText, RefusedText, ResetText} }
    \cup { [kind |-> "http", code |-> c, body |-> ErrorBody, text |-> "not implemented"]
             : c \in {StatusNotImplemented} }
    \cup { [kind |-> "http", code |-> StatusOK, body |-> b, text |-> "{}"]
             : b \in Bodies }

\* A handleAPIResponse that looks for a refused connection first.
handleAPIResponseRefusedFirst(logURL, o) ==
    IF o.kind = "error"
    THEN IF ContainsConnectionRefused(o.text)
         THEN [err |-> TRUE, StatusCode |-> StatusServiceUnavailable,
               Message |-> logURL \o " refused connection"]
         ELSE IF ContainsTimeout(o.text)
         THEN [err |-> TRUE, StatusCode |-> StatusRequestTimeout,
               Message |-> logURL \o " timed out"]
         ELSE [err |-> TRUE, StatusCode |-> StatusBadRequest, Message |-> o.text]
    ELSE IF o.code # StatusOK /\ o.code # StatusCreated
    THEN [err |-> TRUE, StatusCode |-> o.code, Message |-> o.text]
    ELSE [err |-> FALSE, StatusCode |-> o.code, Message |-> o.text]

\* handleAPIResponse: the bytes and no error, or a RequestError.
handleAPIResponse(logURL, o) ==
    IF o.kind = "error"
    THEN IF ContainsTimeout(o.text)
         THEN [err |-> TRUE, StatusCode |-> StatusRequestTimeout,
               Message |-> logURL \o " timed out"]
         ELSE IF ContainsConnectionRefused(o.text)
         THEN [err |-> TRUE, StatusCode |-> StatusServiceUnavailable,
               Message |-> logURL \o " refused connection"]
         ELSE [err |-> TRUE, StatusCode |-> StatusBadRequest, Message |-> o.text]
    ELSE IF o.code # StatusOK /\ o.code # StatusCreated
    THEN [err |-> TRUE, StatusCode |-> o.code, Message |-> o.text]
    ELSE [err |-> FALSE, StatusCode |-> o.code, Message |-> o.text]

\* serviceRequest: the timedResponse; ContentLanguage is never assigned.
serviceRequest(url, o) ==
    LET r == handleAPIResponse(url, o)
    IN  [StatusCode |-> r.StatusCode, Response |-> r.Message,
         Body |-> o.body, ContentLanguage |-> ""]

NewPoolResult(pool) ==
    [ServiceURL |-> pool.URL, PoolName |-> pool.ID, Total |-> 0,
     Confidence |-> "", Debug |-> NoDebug, StatusCode |-> 0,
     StatusMessage |-> "", ContentLanguage |-> ""]

\* searchPool: the PoolResult the goroutine writes to the channel.
searchPool(pool, o) ==
    LET postResp == serviceRequest(pool.PrivateURL \o "/api/search", o)
        results == NewPoolResult(pool)
        decoded == [results EXCEPT !.Total = postResp.Body.Total,
                                   !.Confidence = postResp.Body.Confidence,
                                   !.Debug = postResp.Body.Debug]
    IN  IF postResp.StatusCode # StatusOK
        THEN [results EXCEPT !.StatusCode = postResp.StatusCode,
                             !.StatusMessage = postResp.Response]
        ELSE IF ~postResp.Body.parses
        THEN [decoded EXCEPT !.StatusCode = StatusInternalServerError,
                             !.StatusMessage = "Malformed search response"]
        ELSE [decoded EXCEPT !.StatusCode = StatusOK,
                             !.ContentLanguage = postResp.ContentLanguage]

\* ------------------------------------------------------------ the handler

\* A membership test on the public URL alone.
PoolExistsByURL(identifier, ps) ==
    \E k \in 1..Len(ps) : ps[k].URL = identifier

\* PoolExists: some pool has the identifier as its public URL or its id.
PoolExists(identifier, ps) ==
    \E k \in 1..Len(ps) : ps[k].URL = identifier \/ ps[k].ID = identifier

\* Exclusion keyed on the public URL alone.
isPoolExcludedByURL(prefs, pool) ==
    \E identifier \in prefs.ExcludePools : identifier = pool.URL

\* isPoolExcluded: some entry of exclude_pool is the pool's URL or its id.
isPoolExcluded(prefs, pool) ==
    \E identifier \in prefs.ExcludePools :
        identifier = pool.URL \/ identifier = pool.ID

NewSearchResponse ==
    [Pools |-> <<>>, Results |-> <<>>, TotalHits |-> 0,
     Warnings |-> <<>>, Suggestions |-> <<>>]

IdleTask == [st |-> "none", res |-> NewPoolResult(PoolOf(1))]
IdleSug == [st |-> "none", val |-> <<>>]

\* The positions of the pool set whose pool is searched.
Dispatched(prefs, ps) == { k \in 1..Len(ps) : ~isPoolExcluded(prefs, ps[k]) }

\* A choice that sorts by sequence whatever the sources parameter is.
SortChoiceAlwaysSequence(r, ps) == Strategy("bySequence", "", ps)

\* The strategy Search sorts with: by-confidence on sources=default, else
\* by-sequence.
SortChoice(r, ps) ==
    IF r.Sources # "default"
    THEN Strategy("bySequence", "", ps)
    ELSE Strategy("byConfidence", r.TargetPool, <<>>)

Init ==
    /\ req \in Requests
    /\ pools = <<>>
    /\ pc = "middleware"
    /\ status = 0
    /\ errMsg = ""
    /\ out = NewSearchResponse
    /\ arrival = <<>>
    /\ outstandingRequests = 0
    /\ contentLanguage = ""
    /\ task = [k \in PoolIdx |-> IdleTask]
    /\ requested = {}
    /\ sug = IdleSug
    /\ sortIn = <<>>
    /\ sortSt = Strategy("byName", "", <<>>)
    /\ sortOut = <<>>
    /\ sortAgain = <<>>
    /\ sortPc = "off"
    /\ AuxOff

\* PoolsMiddleware: lookupPools, then abort with 404 on its error (no pool
\* identified) or put the pool set in the request context.
PoolsMiddleware ==
    /\ pc = "middleware"
    /\ \E s \in PoolLists :
         IF Len(s) = 0
         THEN /\ status' = StatusNotFound
              /\ pc' = "done"
              /\ pools' = pools
         ELSE /\ pools' = PoolsOfList(s)
              /\ pc' = "handler"
              /\ status' = status
    /\ UNCHANGED <<req, errMsg, out, arrival, outstandingRequests,
                   contentLanguage, task, requested, sug>>
    /\ UNCHANGED sortVars
    /\ UNCHANGED auxVars

\* Search up to its first channel receive: bind, validate, read the pools,
\* warn about an unknown target pool, start the suggestion goroutine and one
\* searchPool goroutine per pool that is not excluded.
SearchDispatch ==
    /\ pc = "handler"
    /\ IF ~req.BindOK \/ ~req.QueryValid
       THEN /\ status' = StatusBadRequest
            /\ errMsg' = "BadSearch"
            /\ pc' = "done"
            /\ UNCHANGED <<out, outstandingRequests, task, sug>>
       ELSE IF Len(pools) = 0
       THEN /\ status' = StatusInternalServerError
            /\ errMsg' = "NoPools"
            /\ pc' = "done"
            /\ UNCHANGED <<out, outstandingRequests, task, sug>>
       ELSE /\ out' = [NewSearchResponse EXCEPT
                         !.Warnings =
                            IF req.TargetPool # "" /\ ~PoolExists(req.TargetPool, pools)
                            THEN <<"TargetPoolUnavailable">>
                            ELSE <<>>,
                         !.Pools = [k \in 1..Len(pools) |->
                                      [ID |-> pools[k].ID, URL |-> pools[k].URL]]]
            /\ sug' = [st |-> "running", val |-> <<>>]
            /\ task' = [k \in PoolIdx |->
                          IF k \in Dispatched(req, pools)
                          THEN [IdleTask EXCEPT !.st = "running"]
                          ELSE IdleTask]
            /\ outstandingRequests' = Cardinality(Dispatched(req, pools))
            /\ pc' = "collect"
            /\ UNCHANGED <<status, errMsg>>
    /\ UNCHANGED <<req, pools, arrival, contentLanguage, requested>>
    /\ UNCHANGED sortVars
    /\ UNCHANGED auxVars

\* A searchPool goroutine: POST to the pool's private URL, shape the result
\* and block on the channel send.
SearchPoolTask(k) ==
    /\ task[k].st = "running"
    /\ \E o \in Outcomes :
         task' = [task EXCEPT ![k] = [st |-> "sending", res |-> searchPool(pools[k], o)]]
    /\ requested' = requested \cup {pools[k].PrivateURL}
    /\ UNCHANGED <<req, pools, pc, status, errMsg, out, arrival,
                   outstandingRequests, contentLanguage, sug>>
    /\ UNCHANGED sortVars
    /\ UNCHANGED auxVars

\* The collection loop counting every result's total, whatever its status.
CollectCountAll(o, poolResponse) ==
    [o EXCEPT !.Results = Append(@, poolResponse),
              !.TotalHits = @ + poolResponse.Total,
              !.Warnings = IF poolResponse.StatusCode = StatusOK THEN @
                           ELSE Append(@, poolResponse.StatusMessage)]

\* The collection loop with the results of failed pools dropped.
CollectSkipFailed(o, poolResponse) ==
    IF poolResponse.StatusCode = StatusOK
    THEN [o EXCEPT !.Results = Append(@, poolResponse),
                   !.TotalHits = @ + poolResponse.Total]
    ELSE [o EXCEPT !.Warnings = Append(@, poolResponse.StatusMessage)]

\* The collection loop with failures left out of the warnings.
CollectNoWarning(o, poolResponse) ==
    [o EXCEPT !.Results = Append(@, poolResponse),
              !.TotalHits = IF poolResponse.StatusCode = StatusOK
                            THEN @ + poolResponse.Total ELSE @]

\* One pass of the collection loop on the response: append the result, add
\* its total on 200, else append its message to the warnings.
Collect(o, poolResponse) ==
    [o EXCEPT !.Results = Append(@, poolResponse),
              !.TotalHits = IF poolResponse.StatusCode = StatusOK
                            THEN @ + poolResponse.Total ELSE @,
              !.Warnings = IF poolResponse.StatusCode = StatusOK THEN @
                           ELSE Append(@, poolResponse.StatusMessage)]

\* poolResponse := <-channel with the body of the loop: the rendezvous of
\* the coordinator with one goroutine blocked on its send.
ReceivePoolResult(k) ==
    /\ pc = "collect"
    /\ outstandingRequests > 0
    /\ task[k].st = "sending"
    /\ out' = Collect(out, task[k].res)
    /\ contentLanguage' = IF contentLanguage = "" THEN task[k].res.ContentLanguage
                          ELSE contentLanguage
    /\ outstandingRequests' = outstandingRequests - 1
    /\ task' = [task EXCEPT ![k].st = "done"]
    /\ UNCHANGED <<req, pools, pc, status, errMsg, arrival, requested, sug>>
    /\ UNCHANGED sortVars
    /\ UNCHANGED auxVars

\* Outcomes of the suggestor call: its list on a 200 with a body that
\* parses, otherwise the empty list.
SuggestorOutcomes == {"ok", "failed", "malformed"}

\* A getSuggestions that returns without a send when the call failed.
getSuggestionsNoSendOnFailure(o) ==
    IF o = "ok" THEN [st |-> "sending", val |-> <<"suggestion">>]
    ELSE [st |-> "done", val |-> <<>>]

\* getSuggestions: exactly one send on each of its three paths.
getSuggestions(o) ==
    [st |-> "sending", val |-> IF o = "ok" THEN <<"suggestion">> ELSE <<>>]

\* The getSuggestions goroutine: POST to the suggestor and block on the send.
SuggestTask ==
    /\ sug.st = "running"
    /\ \E o \in SuggestorOutcomes : sug' = getSuggestions(o)
    /\ UNCHANGED <<req, pools, pc, status, errMsg, out, arrival,
                   outstandingRequests, contentLanguage, task, requested>>
    /\ UNCHANGED sortVars
    /\ UNCHANGED auxVars

\* A response that turns an empty suggestion list into an error.
SearchRespondFailsWithoutSuggestions ==
    /\ pc = "collect"
    /\ outstandingRequests = 0
    /\ sug.st = "sending"
    /\ sug' = [sug EXCEPT !.st = "done"]
    /\ arrival' = out.Results
    /\ out' = [out EXCEPT !.Suggestions = sug.val,
                          !.Results = IF sug.val = <<>> THEN <<>>
                                      ELSE Sort(SortChoice(req, pools), out.Results)]
    /\ status' = IF sug.val = <<>> THEN StatusInternalServerError ELSE StatusOK
    /\ pc' = "done"
    /\ UNCHANGED <<req, pools, errMsg, outstandingRequests, contentLanguage,
                   task, requested>>
    /\ UNCHANGED sortVars
    /\ UNCHANGED auxVars

\* After the loop: out.Suggestions = <-sugChannel, the sort, and the 200.
SearchRespond ==
    /\ pc = "collect"
    /\ outstandingRequests = 0
    /\ sug.st = "sending"
    /\ sug' = [sug EXCEPT !.st = "done"]
    /\ arrival' = out.Results
    /\ out' = [out EXCEPT !.Suggestions = sug.val,
                          !.Results = Sort(SortChoice(req, pools), out.Results)]
    /\ status' = StatusOK
    /\ pc' = "done"
    /\ UNCHANGED <<req, pools, errMsg, outstandingRequests, contentLanguage,
                   task, requested>>
    /\ UNCHANGED sortVars
    /\ UNCHANGED auxVars

Next ==
    \/ PoolsMiddleware
    \/ SearchDispatch
    \/ \E k \in PoolIdx : SearchPoolTask(k)
    \/ \E k \in PoolIdx : ReceivePoolResult(k)
    \/ SuggestTask
    \/ SearchRespond

Spec == Init /\ [][Next]_vars

\* The goroutines run, every outbound HTTP call returns, and the handler
\* takes each step it is able to take: while some step of the request is
\* enabled, one is taken.  Every step moves a goroutine forward, so no
\* goroutine can be passed over for ever.
SpecFair == Init /\ [][Next]_vars /\ WF_vars(Next)

\* ------------------------------------------------- the orderings on their own

\* A pool result as a pool's 200 answer leaves searchPool.
PoolResultOf(url, name, total, confidence, debug) ==
    [ServiceURL |-> url, PoolName |-> name, Total |-> total,
     Confidence |-> confidence, Debug |-> debug, StatusCode |-> StatusOK,
     StatusMessage |-> "", ContentLanguage |-> ""]

\* Results for by-confidence, from the second pool: an unknown confidence
\* (""), low and high, with max_score absent, 0 or 1 and no hits, or with
\* max_score absent and one hit; and the weakest and the strongest result
\* from the first pool, whose public URL a request can name as its target.
ConfidenceResults ==
    { PoolResultOf(PoolURLs[2], "zz", 0, c, d) :
        c \in {"", "low", "high"}, d \in {NoDebug, <<0>>, <<1>>} }
    \cup { PoolResultOf(PoolURLs[2], "zz", 1, c, NoDebug) :
             c \in {"", "low", "high"} }
    \cup { PoolResultOf(PoolURLs[1], "zz", 0, "", NoDebug),
           PoolResultOf(PoolURLs[1], "zz", 1, "high", <<1>>) }

\* Results for by-sequence and by-name: the pools of the registry and one
\* pool id that is in no pool set.
NameResults ==
    { PoolResultOf("uz", n, 0, "", NoDebug) :
        n \in { PoolNames[k] : k \in PoolIdx } \cup {"zz"} }

ListsOf(S) == UNION { [1..n -> S] : n \in 0..MaxLen }

AllPools == PoolsOfList([k \in PoolIdx |-> k])

\* The strategies Search can sort with, and by-name.
SortStrategies ==
    { SortChoice(r, AllPools) : r \in Requests } \cup {Strategy("byName", "", <<>>)}

InitSort ==
    /\ req = CHOOSE r \in Requests : TRUE
    /\ pools = <<>>
    /\ pc = "off"
    /\ status = 0
    /\ errMsg = ""
    /\ out = NewSearchResponse
    /\ arrival = <<>>
    /\ outstandingRequests = 0
    /\ contentLanguage = ""
    /\ task = [k \in PoolIdx |-> IdleTask]
    /\ requested = {}
    /\ sug = IdleSug
    /\ sortSt \in SortStrategies
    /\ sortIn \in ListsOf(IF sortSt.kind = "byConfidence"
                          THEN ConfidenceResults ELSE NameResults)
    /\ sortOut = <<>>
    /\ sortAgain = <<>>
    /\ sortPc = "input"
    /\ AuxOff

\* sort.Sort(&poolSort) on the list.
SortFirst ==
    /\ sortPc = "input"
    /\ sortOut' = Sort(sortSt, sortIn)
    /\ sortPc' = "sorted"
    /\ UNCHANGED <<sortIn, sortSt, sortAgain>>
    /\ UNCHANGED searchVars
    /\ UNCHANGED auxVars

\* sort.Sort(&poolSort) on the sorted list.
SortSecond ==
    /\ sortPc = "sorted"
    /\ sortAgain' = Sort(sortSt, sortOut)
    /\ sortPc' = "resorted"
    /\ UNCHANGED <<sortIn, sortSt, sortOut>>
    /\ UNCHANGED searchVars
    /\ UNCHANGED auxVars

NextSort == SortFirst \/ SortSecond

SpecSort == InitSort /\ [][NextSort]_vars

\* ===================================================================== claims

Range(s) == { s[i] : i \in 1..Len(s) }

RECURSIVE SumOK(_)
SumOK(results) ==
    IF Len(results) = 0 THEN 0
    ELSE (IF results[1].StatusCode = 200 THEN results[1].Total ELSE 0)
         + SumOK(Tail(results))

\* The pool at position k of the pool set is named in exclude_pool, by its
\* id or by its public URL.
NamedInExcludeList(k) ==
    \E e \in req.ExcludePools : e = pools[k].ID \/ e = pools[k].URL

Answered200 == pc = "done" /\ status = 200

\* C1: in every search response (and at every point of the collection),
\* total_hits is the sum of pagination.total over exactly the results whose
\* status_code is 200, whatever the arrival order.
C1_TotalHitsIsSumOfOK ==
    pc \in {"collect", "done"} => out.TotalHits = SumOK(out.Results)

\* C1 witness: a response holding a non-200 result with a non-zero total next
\* to a 200 result with a non-zero total.
C1_Witness ==
    /\ Answered200
    /\ \E i, j \in 1..Len(out.Results) :
         /\ out.Results[i].StatusCode # 200 /\ out.Results[i].Total > 0
         /\ out.Results[j].StatusCode = 200 /\ out.Results[j].Total > 0

\* C2: in every search response the results are as many as the pools that
\* are not excluded, and every such pool has exactly one result, every
\* excluded pool none.
C2_OneResultPerDispatchedPool ==
    Answered200 =>
        /\ Len(out.Results) =
               Cardinality({ k \in 1..Len(pools) : ~NamedInExcludeList(k) })
        /\ \A k \in 1..Len(pools) :
               Cardinality({ i \in 1..Len(out.Results) :
                               out.Results[i].PoolName = pools[k].ID })
                 = IF NamedInExcludeList(k) THEN 0 ELSE 1

\* C2 witness: a response with two results, one of a pool that failed.
C2_Witness ==
    /\ Answered200
    /\ Len(out.Results) = 2
    /\ \E i \in 1..2 : out.Results[i].StatusCode # 200

\* C3: a pool whose id or public URL is an entry of exclude_pool is never
\* sent a search request, and its identity is in the response's pools list.
C3_ExcludedNeverQueriedButListed ==
    \A k \in 1..Len(pools) :
        NamedInExcludeList(k) =>
            /\ pools[k].PrivateURL \notin requested
            /\ task[k].st = "none"
            /\ Answered200 =>
                  [ID |-> pools[k].ID, URL |-> pools[k].URL] \in Range(out.Pools)

\* C3 witness: a response for a pool set with one pool excluded by its id
\* and another pool that was queried.
C3_Witness ==
    /\ Answered200
    /\ \E k \in 1..Len(pools) : pools[k].ID \in req.ExcludePools
    /\ requested # {}

\* C4: a request whose target_pool names a pool of the pool set and is also
\* listed in exclude_pool is answered 400, with no pool search and no
\* suggestion request dispatched.
C4_TargetExcludedIsBadRequest ==
    (/\ req.TargetPool # ""
     /\ PoolExists(req.TargetPool, pools)
     /\ req.TargetPool \in req.ExcludePools)
    => /\ requested = {}
       /\ sug.st = "none"
       /\ pc = "done" => status = 400

\* The status messages of the failed results of a list, in list order.
FailureMessages(results) ==
    LET F == { i \in 1..Len(results) : results[i].StatusCode # 200 }
        Nth(n) == CHOOSE i \in F : Cardinality({ j \in F : j < i }) = n - 1
    IN  [n \in 1..Cardinality(F) |-> results[Nth(n)].StatusMessage]

\* C5: once the fan-out has started the request is answered 200 whatever the
\* pools return; every failed pool has a result with a non-200 status_code,
\* and the warnings are the target-pool warning (if any) followed by the
\* status_message of each failed result, in arrival order.
C5_PoolFailureBecomesWarning ==
    /\ pc = "collect" => status = 0
    /\ (pc = "done" /\ Len(out.Pools) > 0) =>
          /\ status = 200
          /\ \A k \in 1..Len(pools) :
                (task[k].st = "done" /\ task[k].res.StatusCode # 200) =>
                    /\ task[k].res \in Range(out.Results)
                    /\ task[k].res.StatusMessage \in Range(out.Warnings)
          /\ out.Warnings =
                (IF req.TargetPool # "" /\ ~PoolExists(req.TargetPool, pools)
                 THEN <<"TargetPoolUnavailable">> ELSE <<>>)
                \o FailureMessages(arrival)

\* C5 witness: a 200 response in which every one of two pools failed, in two
\* different ways.
C5_Witness ==
    /\ Answered200
    /\ Len(out.Results) = 2
    /\ \A i \in 1..2 : out.Results[i].StatusCode # 200
    /\ out.Results[1].StatusCode # out.Results[2].StatusCode
    /\ Len(out.Warnings) >= 2

\* No goroutine is running or waiting on its channel send.
NoGoroutineBlocked ==
    /\ \A k \in PoolIdx : task[k].st \in {"none", "done"}
    /\ sug.st \in {"none", "done"}

\* C6: when every outbound HTTP call returns and the goroutines are
\* scheduled, the request ends with a response, and no searchPool or
\* getSuggestions goroutine is left blocked on its channel send.
C6_SearchCompletes == <>[](pc = "done" /\ status # 0 /\ NoGoroutineBlocked)

\* C6 witness: a response sent after a pool timed out and the suggestor
\* failed.
C6_Witness ==
    /\ Answered200
    /\ NoGoroutineBlocked
    /\ sug.st = "done" /\ out.Suggestions = <<>>
    /\ \E i \in 1..Len(out.Results) : out.Results[i].StatusCode = 408

\* The results of a list whose service_url is the strategy's target URL.
TargetMatches(st, s) == { i \in 1..Len(s) : s[i].ServiceURL = st.targetURL }

\* confidence_index as the specification gives it: low 0, medium 1, high 2,
\* exact 3, anything else 0.
ConfidenceIndexOf(r) ==
    CASE r.Confidence = "low" -> 0 [] r.Confidence = "medium" -> 1
      [] r.Confidence = "high" -> 2 [] r.Confidence = "exact" -> 3 [] OTHER -> 0

\* max_score, an absent one counting as 0.
ScoreOf(r) == IF r.Debug = <<>> THEN 0 ELSE r.Debug[1]

\* (confidence_index, max_score, total) of a is lexicographically >= that of b.
TripleGE(a, b) ==
    \/ ConfidenceIndexOf(a) > ConfidenceIndexOf(b)
    \/ /\ ConfidenceIndexOf(a) = ConfidenceIndexOf(b)
       /\ \/ ScoreOf(a) > ScoreOf(b)
          \/ ScoreOf(a) = ScoreOf(b) /\ a.Total >= b.Total

\* C7: under by-confidence, when the target URL is set and is the
\* service_url of some result, the first of the sorted results has that
\* service_url, whatever the confidences, scores, totals and input order.
C7_TargetAtPositionZero ==
    (/\ sortPc # "input"
     /\ sortSt.kind = "byConfidence"
     /\ sortSt.targetURL # ""
     /\ TargetMatches(sortSt, sortIn) # {})
    => /\ Len(sortOut) = Len(sortIn)
       /\ sortOut[1].ServiceURL = sortSt.targetURL
       /\ sortOut[1] \in Range(sortIn)

\* C7 witness: three results, the target last in the input and weaker than
\* the two before it, first in the output.
C7_Witness ==
    /\ sortPc = "sorted"
    /\ sortSt.kind = "byConfidence"
    /\ Len(sortIn) = 3
    /\ TargetMatches(sortSt, sortIn) = {3}
    /\ sortIn[3].Confidence = "" /\ sortIn[1].Confidence = "high"
    /\ sortOut[1] = sortIn[3]

\* C8 as stated: under by-confidence the triples of the sorted results are
\* lexicographically non-increasing over all positions.
C8_TriplesNonIncreasing ==
    (sortPc # "input" /\ sortSt.kind = "byConfidence") =>
        \A i, j \in 1..Len(sortOut) : i < j => TripleGE(sortOut[i], sortOut[j])

\* C8 amended: under by-confidence the triples are lexicographically
\* non-increasing over the positions whose results do not have the target
\* URL as their service_url; the results that have it come first, whatever
\* their triples.
C8_TriplesNonIncreasingBelowTarget ==
    (sortPc # "input" /\ sortSt.kind = "byConfidence") =>
        /\ \A i, j \in 1..Len(sortOut) :
              (i < j /\ {i, j} \cap TargetMatches(sortSt, sortOut) = {})
                 => TripleGE(sortOut[i], sortOut[j])
        /\ \A i, j \in 1..Len(sortOut) :
              (i \in TargetMatches(sortSt, sortOut)
               /\ j \notin TargetMatches(sortSt, sortOut)) => i < j

\* C8 witness: three results that arrive in increasing order of their
\* triples and leave in decreasing order: an unknown confidence ties with
\* low, the max_score 1 comes first, and an absent max_score ties with 0 and
\* is told apart by its total.
C8_Witness ==
    /\ sortPc = "sorted"
    /\ sortSt.kind = "byConfidence"
    /\ Len(sortIn) = 3
    /\ TargetMatches(sortSt, sortIn) = {}
    /\ sortIn[1].Confidence = "" /\ sortIn[1].Debug = <<0>> /\ sortIn[1].Total = 0
    /\ sortIn[2].Confidence = "low" /\ sortIn[2].Debug = NoDebug /\ sortIn[2].Total = 1
    /\ sortIn[3].Confidence = "low" /\ sortIn[3].Debug = <<1>> /\ sortIn[3].Total = 0
    /\ sortOut = <<sortIn[3], sortIn[2], sortIn[1]>>

ArrivalOrders ==
    { [i \in 1..Len(arrival) |-> arrival[p[i]]] :
        p \in { q \in [1..Len(arrival) -> 1..Len(arrival)] :
                  \A i, j \in 1..Len(arrival) : i # j => q[i] # q[j] } }

\* The strategy's comparator puts every two results of the response in
\* order: of Less(a, b) and Less(b, a) exactly one holds.
NoTies ==
    \A i, j \in 1..Len(arrival) :
        i # j => (Less(SortChoice(req, pools), arrival[i], arrival[j])
                  # Less(SortChoice(req, pools), arrival[j], arrival[i]))

SequenceOfSource(r) ==
    pools[CHOOSE k \in 1..Len(pools) : task[k].st = "done" /\ task[k].res = r].Sequence

C12_StrategyBySourcesParam ==
    Answered200 =>
        out.Results =
            Sort(IF req.Sources = "default"
                 THEN Strategy("byConfidence", req.TargetPool, <<>>)
                 ELSE Strategy("bySequence", "", pools), arrival)

\* C12 witness: a sources=default response that by-sequence would have
\* ordered differently.
C12_Witness ==
    /\ Answered200
    /\ req.Sources = "default"
    /\ Len(arrival) = 2
    /\ out.Results # Sort(Strategy("bySequence", "", pools), arrival)

\* ------------------------------------------------------- the filter merge

\* Longest total of facets in the filter lists handed to one merge.
MaxFacets == 3
\* Largest count of a bucket in a pool's filter list.
MaxCount == 2

\* No search request and no sort on its own is under way.
SearchOff ==
    /\ req = CHOOSE r \in Requests : TRUE
    /\ pools = <<>>
    /\ pc = "off"
    /\ status = 0
    /\ errMsg = ""
    /\ out = NewSearchResponse
    /\ arrival = <<>>
    /\ outstandingRequests = 0
    /\ contentLanguage = ""
    /\ task = [k \in PoolIdx |-> IdleTask]
    /\ requested = {}
    /\ sug = IdleSug

SortOff ==
    /\ sortIn = <<>>
    /\ sortSt = Strategy("byName", "", <<>>)
    /\ sortOut = <<>>
    /\ sortAgain = <<>>
    /\ sortPc = "off"

\* Byte-wise order of Go strings, on the bucket values of the model.
ValueRank(v) ==
    CASE v = "de" -> 1 [] v = "en" -> 2 [] v = "fr" -> 3 [] OTHER -> 4

ValueLess(x, y) == ValueRank(x) < ValueRank(y)

\* The singleFilter values of the first merge loop, in the order the loop
\* meets them: for each source kind in order, each facet of that kind's
\* response in list order.  resps is filterResps: a function from the source
\* kinds that answered to their FacetList.
RECURSIVE SinglesFrom(_, _)
SinglesFrom(resps, i) ==
    IF i > Len(sources) THEN <<>>
    ELSE LET source == sources[i]
             mine == IF source \in DOMAIN resps
                     THEN [n \in 1..Len(resps[source]) |->
                             [source |-> source, filter |-> resps[source][n]]]
                     ELSE <<>>
         IN  mine \o SinglesFrom(resps, i + 1)

\* filterOrder after the first n singles: an id is appended when filterMap
\* has nothing for it yet.
RECURSIVE filterOrder(_, _)
filterOrder(singles, n) ==
    IF n = 0 THEN <<>>
    ELSE LET prev == filterOrder(singles, n - 1)
             id == singles[n].filter.ID
         IN  IF \E m \in 1..(n - 1) : singles[m].filter.ID = id
             THEN prev ELSE Append(prev, id)

\* filterMap[filterID]: the singles of that id, in the order they were met.
filterMap(singles, filterID) ==
    SelectSeq(singles, LAMBDA x : x.filter.ID = filterID)

\* "last wins": the last non-empty string of a list from position n on.
RECURSIVE LastNonEmpty(_, _)
LastNonEmpty(strs, n) ==
    IF n > Len(strs) THEN ""
    ELSE LET rest == LastNonEmpty(strs, n + 1)
         IN  IF rest # "" THEN rest ELSE strs[n]

\* "first ... wins": the first non-empty string of a list from position n,
\* "" when there is none.
RECURSIVE FirstNonEmpty(_, _)
FirstNonEmpty(strs, n) ==
    IF n > Len(strs) THEN ""
    ELSE IF strs[n] # "" THEN strs[n] ELSE FirstNonEmpty(strs, n + 1)

\* The buckets of the contributors of one filter, from contributor n on.
RECURSIVE BucketsFrom(_, _)
BucketsFrom(filterList, n) ==
    IF n > Len(filterList) THEN <<>>
    ELSE filterList[n].filter.Buckets \o BucketsFrom(filterList, n + 1)

\* valuesMap[value] += bucket.Count over a list of buckets from position n.
RECURSIVE CountFrom(_, _, _)
CountFrom(buckets, value, n) ==
    IF n > Len(buckets) THEN 0
    ELSE (IF buckets[n].Value = value THEN buckets[n].Count ELSE 0)
         + CountFrom(buckets, value, n + 1)

valuesMap(filterList) ==
    LET buckets == BucketsFrom(filterList, 1)
    IN  [value \in { buckets[i].Value : i \in 1..Len(buckets) } |->
            CountFrom(buckets, value, 1)]

\* A comparison by count that leaves ties alone.
bucketLessNoTieBreak(bucketSort, a, b) ==
    IF bucketSort = "alpha" THEN ValueLess(a.Value, b.Value)
    ELSE IF a.Count # b.Count THEN a.Count > b.Count
    ELSE ValueLess(b.Value, a.Value)

\* The less function of sort.Slice: by value on "alpha", else by count
\* descending and then by value.
bucketLess(bucketSort, a, b) ==
    IF bucketSort = "alpha" THEN ValueLess(a.Value, b.Value)
    ELSE IF a.Count > b.Count THEN TRUE
    ELSE IF a.Count < b.Count THEN FALSE
    ELSE ValueLess(a.Value, b.Value)

\* sort.Slice on the buckets built from valuesMap: the values are distinct,
\* so the less function orders every two buckets and the sorted list is the
\* same for every iteration order of the map.
RECURSIVE SortSlice(_, _)
SortSlice(bucketSort, buckets) ==
    IF buckets = {} THEN <<>>
    ELSE LET first == CHOOSE x \in buckets :
                          \A y \in buckets \ {x} : bucketLess(bucketSort, x, y)
         IN  <<first>> \o SortSlice(bucketSort, buckets \ {first})

\* The second merge loop for one filter id: the QueryFilter combined from
\* the singles of that id.
queryFilter(filterID, filterList) ==
    LET names == [n \in 1..Len(filterList) |-> filterList[n].filter.Name]
        sorts == [n \in 1..Len(filterList) |-> filterList[n].filter.Sort]
        bucketSort == FirstNonEmpty(sorts, 1)
        vm == valuesMap(filterList)
    IN  [ID |-> filterID,
         Label |-> FirstNonEmpty(names, 1),
         Hidden |-> \E n \in 1..Len(filterList) : filterList[n].filter.Hidden,
         Sources |-> [n \in 1..Len(filterList) |-> filterList[n].source],
         Values |-> SortSlice(bucketSort,
                              { [Value |-> v, Count |-> vm[v]] : v \in DOMAIN vm })]

\* A merge that lists the filters in the reverse of their first appearance.
combinedReversed(resps) ==
    LET singles == SinglesFrom(resps, 1)
        order == filterOrder(singles, Len(singles))
    IN  [k \in 1..Len(order) |->
            queryFilter(order[Len(order) + 1 - k],
                        filterMap(singles, order[Len(order) + 1 - k]))]

\* The merge of refreshCache: the combined catalog of the responses.
combined(resps) ==
    LET singles == SinglesFrom(resps, 1)
        order == filterOrder(singles, Len(singles))
    IN  [k \in 1..Len(order) |-> queryFilter(order[k], filterMap(singles, order[k]))]

\* ----------------------------------------------- the filter merge on its own

Facet(id, name, sort, hidden, buckets) ==
    [ID |-> id, Name |-> name, Sort |-> sort, Hidden |-> hidden, Buckets |-> buckets]

Bucket(value, count) == [Value |-> value, Count |-> count]

\* Filter ids after getPoolFilters' normalisation.
FilterIDs == {"FilterLanguage", "FilterFormat"}

\* Bucket lists of a pool's facet.
BucketLists ==
    << <<Bucket("en", MaxCount), Bucket("de", 1)>>,
       <<Bucket("en", 1), Bucket("fr", 1)>>,
       <<Bucket("fr", MaxCount)>> >>

\* Facets a pool of a source kind returns for one filter id: with and
\* without a name, with the sort hint alpha, count or none, hidden or not.
FacetsNamed(label) ==
    { Facet(id, v[1], v[2], v[3], BucketLists[v[4]]) :
        id \in FilterIDs,
        v \in { <<label, "count", FALSE, 1>>, <<label, "alpha", FALSE, 1>>,
                <<"", "", FALSE, 2>>, <<"", "alpha", TRUE, 2>>,
                <<label, "", TRUE, 3>>, <<"", "count", FALSE, 3>> } }

FacetsOf(source) ==
    CASE source = "solr" -> FacetsNamed("Ls")
      [] source = "eds" -> FacetsNamed("Le")
      [] OTHER -> { Facet(id, v[1], v[2], FALSE, BucketLists[v[3]]) :
                      id \in FilterIDs, v \in { <<"Li", "", 2>>, <<"", "alpha", 3>> } }

\* The responses a merge can get: one from each source kind, those of the
\* solr kinds with at least one facet (getPoolFilters sends nil for an empty
\* list), that of eds possibly emptied by its allow-list.
MergeInputs ==
    UNION { { ("solr" :> a) @@ ("solr-images" :> b) @@ ("eds" :> c) :
                a \in [1..n[1] -> FacetsOf("solr")],
                b \in [1..n[2] -> FacetsOf("solr-images")],
                c \in [1..n[3] -> FacetsOf("eds")] }
            : n \in { m \in (1..MaxFacets) \X (1..MaxFacets) \X (0..MaxFacets) :
                        m[1] + m[2] + m[3] <= MaxFacets } }

\* The catalog as the filter list of one pool: a QueryFilter has a label for
\* the name, its values for the buckets and no sort hint.
AsFacetList(catalog) ==
    [k \in 1..Len(catalog) |->
        Facet(catalog[k].ID, catalog[k].Label, "", catalog[k].Hidden, catalog[k].Values)]

InitMerge ==
    /\ SearchOff
    /\ SortOff
    /\ FilterOff
    /\ IdentOff
    /\ RestOff
    /\ mergeIn \in MergeInputs
    /\ mergeOut = <<>>
    /\ mergeAgain = <<>>
    /\ mergePc = "input"

\* The merge of refreshCache on the responses.
MergeFirst ==
    /\ mergePc = "input"
    /\ mergeOut' = combined(mergeIn)
    /\ mergePc' = "merged"
    /\ UNCHANGED <<mergeIn, mergeAgain>>
    /\ UNCHANGED <<searchVars, sortVars, filterVars, identVars, restVars>>

\* The merge on its own output, handed in as the first source kind's list.
MergeSecond ==
    /\ mergePc = "merged"
    /\ mergeAgain' = combined(sources[1] :> AsFacetList(mergeOut))
    /\ mergePc' = "remerged"
    /\ UNCHANGED <<mergeIn, mergeOut>>
    /\ UNCHANGED <<searchVars, sortVars, filterVars, identVars, restVars>>

NextMerge == MergeFirst \/ MergeSecond

SpecMerge == InitMerge /\ [][NextMerge]_vars

\* --------------------------------------------------------- the filter cache

\* Refreshes monitorFilters runs.
MaxRefresh == 2

\* The pools of the registry as lookupPools identifies them: two solr pools,
\* a solr-images pool and an eds pool.
FilterRegistry ==
    << [ID |-> "s1", Source |-> "solr"], [ID |-> "s2", Source |-> "solr"],
       [ID |-> "i1", Source |-> "solr-images"], [ID |-> "e1", Source |-> "eds"] >>

\* Pool sets lookupPools returns to a refresh: the pools it identified, in
\* registry order.
FilterPoolSets ==
    { SelectSeq(FilterRegistry, LAMBDA p : p.ID \in ids) :
        ids \in (SUBSET { "s1", "s2", "i1", "e1" }) \ {{}} }

\* The last pool of a source kind in the pool set: a loop with no break.
RepresentativeLast(ps, source) ==
    IF \E k \in 1..Len(ps) : ps[k].Source = source
    THEN CHOOSE k \in 1..Len(ps) :
             /\ ps[k].Source = source
             /\ \A m \in (k + 1)..Len(ps) : ps[m].Source # source
    ELSE 0

\* The first pool of a source kind in the pool set, 0 when there is none.
Representative(ps, source) ==
    IF \E k \in 1..Len(ps) : ps[k].Source = source
    THEN CHOOSE k \in 1..Len(ps) :
             /\ ps[k].Source = source
             /\ \A m \in 1..(k - 1) : ps[m].Source # source
    ELSE 0

\* Filter ids that have the prefix Filter.
PrefixedIDs == {"FilterLanguage", "FilterFormat"}

\* The allow-list of filter ids of an eds pool.
includeFilters ==
    {"ContentProvider", "SubjectGeographic", "Language", "Publisher", "SourceType"}

\* Facet lists in the body of a pool's answer, by source kind.
RawFacetLists(source) ==
    CASE source = "solr" ->
           { <<>>, <<Facet("FilterLanguage", "Ls", "count", FALSE, BucketLists[1])>> }
      [] source = "eds" ->
           { <<Facet("Subject", "Le", "", FALSE, BucketLists[2])>>,
             <<Facet("Language", "", "", FALSE, BucketLists[2])>> }
      [] OTHER ->
           { <<Facet("FilterLanguage", "Li", "", FALSE, BucketLists[3])>>,
             <<Facet("FilterFormat", "Li", "", FALSE, BucketLists[3])>> }

\* What a filter request comes to: no token, or an HTTP exchange with a
\* status and a body that parses or not.
FilterOutcomes(source) ==
    { [kind |-> "jwtError", code |-> 0, parses |-> FALSE, FacetList |-> <<>>],
      [kind |-> "http", code |-> StatusInternalServerError, parses |-> FALSE,
       FacetList |-> <<>>],
      [kind |-> "http", code |-> StatusOK, parses |-> FALSE, FacetList |-> <<>>] }
    \cup { [kind |-> "http", code |-> StatusOK, parses |-> TRUE, FacetList |-> l] :
             l \in RawFacetLists(source) }

\* A getPoolFilters that puts the prefix in front of every id.
getPoolFiltersAlwaysPrefix(pool, o) ==
    IF o.kind = "jwtError" THEN NilFilters
    ELSE IF pool.Source \notin {"eds", "solr", "solr-images"} THEN NilFilters
    ELSE IF o.code # StatusOK THEN NilFilters
    ELSE IF ~o.parses THEN NilFilters
    ELSE IF Len(o.FacetList) = 0 THEN NilFilters
    ELSE LET kept == IF pool.Source = "eds"
                     THEN SelectSeq(o.FacetList, LAMBDA f : f.ID \in includeFilters)
                     ELSE o.FacetList
         IN  [nil |-> FALSE,
              FacetList |->
                 [n \in 1..Len(kept) |-> [kept[n] EXCEPT !.ID = "Filter" \o kept[n].ID]]]

\* getPoolFilters: nil when the token cannot be minted, the source kind is
\* not handled, the status is not 200, the body does not parse or its list
\* is empty; else the list, cut to the allow-list for eds, with every id
\* given the prefix Filter.
getPoolFilters(pool, o) ==
    IF o.kind = "jwtError" THEN NilFilters
    ELSE IF pool.Source \notin {"eds", "solr", "solr-images"} THEN NilFilters
    ELSE IF o.code # StatusOK THEN NilFilters
    ELSE IF ~o.parses THEN NilFilters
    ELSE IF Len(o.FacetList) = 0 THEN NilFilters
    ELSE LET kept == IF pool.Source = "eds"
                     THEN SelectSeq(o.FacetList, LAMBDA f : f.ID \in includeFilters)
                     ELSE o.FacetList
         IN  [nil |-> FALSE,
              FacetList |->
                 [n \in 1..Len(kept) |->
                     IF kept[n].ID \in PrefixedIDs THEN kept[n]
                     ELSE [kept[n] EXCEPT !.ID = "Filter" \o kept[n].ID]]]

\* The request getPoolFilters sends, relative to the pool's private URL:
\* none when the token cannot be minted or the source kind is not handled,
\* POST api/search/facets to an eds pool, GET api/filters to a pool whose
\* source kind begins with solr.
filterRequest(pool, o) ==
    IF o.kind = "jwtError" THEN NoRequest
    ELSE IF pool.Source = "eds"
    THEN [method |-> "POST", endpoint |-> "api/search/facets",
          body |-> "{\"query\":\"keyword:{*}\"}", pool |-> pool.ID]
    ELSE IF pool.Source \in {"solr", "solr-images"}
    THEN [method |-> "GET", endpoint |-> "api/filters", body |-> "", pool |-> pool.ID]
    ELSE NoRequest

\* A QueryFilter read from memory that is not part of the array.
InvalidFilter ==
    [ID |-> "invalid memory", Label |-> "", Hidden |-> FALSE, Sources |-> <<>>,
     Values |-> <<>>]

\* What a reader makes of a slice header: the first len elements of the
\* array, and memory past the array when len is larger.
ReadSlice(h) ==
    IF h.len <= Len(h.array) THEN SubSeq(h.array, 1, h.len)
    ELSE h.array \o [i \in 1..(h.len - Len(h.array)) |-> InvalidFilter]

InitFilters ==
    /\ SearchOff
    /\ SortOff
    /\ MergeOff
    /\ IdentOff
    /\ RestOff
    /\ refreshPc = "sleep"
    /\ refreshCount = 0
    /\ filterPools = <<>>
    /\ filterTask = [i \in 1..Len(sources) |-> IdleFilterTask]
    /\ filterResps = <<>>
    /\ filterOutstanding = 0
    /\ newFilters = <<>>
    /\ currentFilters = Slice(<<>>)
    /\ refreshResult = "none"
    /\ snapshots = {<<>>}
    /\ observed = <<>>

\* A refresh that empties the cache when lookupPools fails.
refreshStartClearsOnError ==
    /\ refreshPc = "sleep"
    /\ refreshCount < MaxRefresh
    /\ refreshCount' = refreshCount + 1
    /\ \E ps \in FilterPoolSets \cup {<<>>} :
         /\ filterPools' = ps
         /\ filterTask' =
               [i \in 1..Len(sources) |->
                   IF Representative(ps, sources[i]) # 0
                   THEN [st |-> "running",
                         pool |-> ps[Representative(ps, sources[i])].ID,
                         filters |-> NilFilters, sent |-> NoRequest]
                   ELSE IdleFilterTask]
         /\ filterOutstanding' =
               Cardinality({ i \in 1..Len(sources) : Representative(ps, sources[i]) # 0 })
         /\ refreshPc' = IF ps = <<>> THEN "sleep" ELSE "collect"
         /\ refreshResult' = IF ps = <<>> THEN "aborted" ELSE "none"
         /\ currentFilters' = IF ps = <<>> THEN Slice(<<>>) ELSE currentFilters
    /\ filterResps' = <<>>
    /\ UNCHANGED <<newFilters, snapshots, observed>>
    /\ UNCHANGED <<searchVars, sortVars, mergeVars, identVars, restVars>>

\* refreshCache up to its collection loop: lookupPools, then one
\* getPoolFilters goroutine for the first pool of each source kind that has
\* one.  An empty pool set stands for lookupPools' error.
refreshStart ==
    /\ refreshPc = "sleep"
    /\ refreshCount < MaxRefresh
    /\ refreshCount' = refreshCount + 1
    /\ \E ps \in FilterPoolSets \cup {<<>>} :
         /\ filterPools' = ps
         /\ filterTask' =
               [i \in 1..Len(sources) |->
                   IF Representative(ps, sources[i]) # 0
                   THEN [st |-> "running",
                         pool |-> ps[Representative(ps, sources[i])].ID,
                         filters |-> NilFilters, sent |-> NoRequest]
                   ELSE IdleFilterTask]
         /\ filterOutstanding' =
               Cardinality({ i \in 1..Len(sources) : Representative(ps, sources[i]) # 0 })
         /\ refreshPc' = IF ps = <<>> THEN "sleep" ELSE "collect"
         /\ refreshResult' = IF ps = <<>> THEN "aborted" ELSE "none"
    /\ filterResps' = <<>>
    /\ UNCHANGED <<newFilters, currentFilters, snapshots, observed>>
    /\ UNCHANGED <<searchVars, sortVars, mergeVars, identVars, restVars>>

\* A getPoolFilters goroutine: the request, then the send on the channel.
getPoolFiltersTask(i) ==
    /\ filterTask[i].st = "running"
    /\ \E o \in FilterOutcomes(sources[i]) :
         filterTask' =
             [filterTask EXCEPT ![i].st = "sending",
                                ![i].filters =
                                    getPoolFilters([ID |-> filterTask[i].pool,
                                                    Source |-> sources[i]], o),
                                ![i].sent =
                                    filterRequest([ID |-> filterTask[i].pool,
                                                   Source |-> sources[i]], o)]
    /\ UNCHANGED <<refreshPc, refreshCount, filterPools, filterResps,
                   filterOutstanding, newFilters, currentFilters, refreshResult,
                   snapshots, observed>>
    /\ UNCHANGED <<searchVars, sortVars, mergeVars, identVars, restVars>>

\* One turn of the collection loop: a response that has filters is kept
\* under its pool's source kind.
receiveFilterResp(i) ==
    /\ refreshPc = "collect"
    /\ filterOutstanding > 0
    /\ filterTask[i].st = "sending"
    /\ filterTask' = [filterTask EXCEPT ![i].st = "done"]
    /\ filterResps' =
          IF filterTask[i].filters # NilFilters
          THEN (sources[i] :> filterTask[i].filters.FacetList) @@ filterResps
          ELSE filterResps
    /\ filterOutstanding' = filterOutstanding - 1
    /\ UNCHANGED <<refreshPc, refreshCount, filterPools, newFilters,
                   currentFilters, refreshResult, snapshots, observed>>
    /\ UNCHANGED <<searchVars, sortVars, mergeVars, identVars, restVars>>

\* A monitor that ends with the first refresh that aborts.
refreshMergeStopsOnAbort ==
    /\ refreshPc = "collect"
    /\ filterOutstanding = 0
    /\ IF Cardinality(DOMAIN filterResps) # Len(sources)
       THEN /\ refreshPc' = "stopped"
            /\ refreshResult' = "aborted"
            /\ UNCHANGED <<newFilters, snapshots>>
       ELSE /\ refreshPc' = "store"
            /\ newFilters' = combined(filterResps)
            /\ snapshots' = snapshots \cup {combined(filterResps)}
            /\ UNCHANGED refreshResult
    /\ UNCHANGED <<refreshCount, filterPools, filterTask, filterResps,
                   filterOutstanding, currentFilters, observed>>
    /\ UNCHANGED <<searchVars, sortVars, mergeVars, identVars, restVars>>

\* The sanity check and the merge: the refresh goes on only with as many
\* responses as there are source kinds.
refreshMerge ==
    /\ refreshPc = "collect"
    /\ filterOutstanding = 0
    /\ IF Cardinality(DOMAIN filterResps) # Len(sources)
       THEN /\ refreshPc' = "sleep"
            /\ refreshResult' = "aborted"
            /\ UNCHANGED <<newFilters, snapshots>>
       ELSE /\ refreshPc' = "store"
            /\ newFilters' = combined(filterResps)
            /\ snapshots' = snapshots \cup {combined(filterResps)}
            /\ UNCHANGED refreshResult
    /\ UNCHANGED <<refreshCount, filterPools, filterTask, filterResps,
                   filterOutstanding, currentFilters, observed>>
    /\ UNCHANGED <<searchVars, sortVars, mergeVars, identVars, restVars>>

\* f.currentFilters = combined, first part: the assignment writes the words
\* of the slice header one after the other with no lock, in an order the
\* build chooses.
storeBegin ==
    /\ refreshPc = "store"
    /\ \/ currentFilters' = [currentFilters EXCEPT !.array = newFilters]
       \/ currentFilters' = [currentFilters EXCEPT !.len = Len(newFilters)]
    /\ refreshPc' = "storing"
    /\ UNCHANGED <<refreshCount, filterPools, filterTask, filterResps,
                   filterOutstanding, newFilters, refreshResult, snapshots, observed>>
    /\ UNCHANGED <<searchVars, sortVars, mergeVars, identVars, restVars>>

\* f.currentFilters = combined, the rest of the header; refreshCache returns.
storeEnd ==
    /\ refreshPc = "storing"
    /\ currentFilters' = Slice(newFilters)
    /\ refreshPc' = "sleep"
    /\ refreshResult' = "published"
    /\ UNCHANGED <<refreshCount, filterPools, filterTask, filterResps,
                   filterOutstanding, newFilters, snapshots, observed>>
    /\ UNCHANGED <<searchVars, sortVars, mergeVars, identVars, restVars>>

\* GetSearchFilters: answers with getFilters(), a read of f.currentFilters
\* with no lock.
GetSearchFilters ==
    /\ refreshPc # "off"
    /\ observed' = ReadSlice(currentFilters)
    /\ UNCHANGED <<refreshPc, refreshCount, filterPools, filterTask, filterResps,
                   filterOutstanding, newFilters, currentFilters, refreshResult,
                   snapshots>>
    /\ UNCHANGED <<searchVars, sortVars, mergeVars, identVars, restVars>>

NextFilters ==
    \/ refreshStart
    \/ \E i \in 1..Len(sources) : getPoolFiltersTask(i)
    \/ \E i \in 1..Len(sources) : receiveFilterResp(i)
    \/ refreshMerge
    \/ storeBegin
    \/ storeEnd
    \/ GetSearchFilters

SpecFilters == InitFilters /\ [][NextFilters]_vars

\* The monitor goroutine with the goroutines of its refreshes, no client
\* asking for the filters.
NextMonitor ==
    \/ refreshStart
    \/ \E i \in 1..Len(sources) : getPoolFiltersTask(i)
    \/ \E i \in 1..Len(sources) : receiveFilterResp(i)
    \/ refreshMerge
    \/ storeBegin
    \/ storeEnd

\* The monitor goroutine and the getPoolFilters goroutines are scheduled,
\* every HTTP call returns (the clients have timeouts) and time.Sleep ends.
SpecFiltersFair ==
    /\ InitFilters
    /\ [][NextMonitor]_vars
    /\ WF_vars(NextMonitor)

\* ------------------------------------------------------------ C16, C17, C18

\* The contributions to a merge: the facet at position n of the list of the
\* i-th source kind, ordered by source kind and then by position.
Contribs ==
    { p \in (1..Len(sources)) \X (1..MaxFacets) :
        p[2] <= Len(mergeIn[sources[p[1]]]) }

Before(p, q) == p[1] < q[1] \/ (p[1] = q[1] /\ p[2] < q[2])

FacetAt(p) == mergeIn[sources[p[1]]][p[2]]

ContribsOf(id) == { p \in Contribs : FacetAt(p).ID = id }

FirstOf(S) == CHOOSE p \in S : \A q \in S \ {p} : Before(p, q)

NthOf(S, n) == CHOOSE p \in S : Cardinality({ q \in S : Before(q, p) }) = n - 1

\* The sort hint chosen for a filter id: that of its first contributor that
\* has one.
ChosenSort(id) ==
    LET hinted == { p \in ContribsOf(id) : FacetAt(p).Sort # "" }
    IN  IF hinted = {} THEN "" ELSE FacetAt(FirstOf(hinted)).Sort

\* The sum of the counts of a value over the buckets of a set of
\* contributions.
RECURSIVE SumOfValue(_, _)
SumOfValue(S, value) ==
    IF S = {} THEN 0
    ELSE LET p == CHOOSE q \in S : TRUE
         IN  CountFrom(FacetAt(p).Buckets, value, 1) + SumOfValue(S \ {p}, value)

ValuesOf(S) ==
    UNION { { FacetAt(p).Buckets[i].Value : i \in 1..Len(FacetAt(p).Buckets) } : p \in S }

\* C16: the merged catalog lists each filter id once, in the order of first
\* appearance across the source kinds solr, solr-images, eds; the label of a
\* filter is the first non-empty name among its contributors, hidden is the
\* OR of their hidden flags, and sources lists their source kinds in
\* contribution order.
C16_MergedFiltersInFirstAppearanceOrder ==
    mergePc \in {"merged", "remerged"} =>
        /\ { mergeOut[k].ID : k \in 1..Len(mergeOut) } = { FacetAt(p).ID : p \in Contribs }
        /\ \A k, l \in 1..Len(mergeOut) :
              k < l => Before(FirstOf(ContribsOf(mergeOut[k].ID)),
                              FirstOf(ContribsOf(mergeOut[l].ID)))
        /\ \A k \in 1..Len(mergeOut) :
              LET C == ContribsOf(mergeOut[k].ID)
                  named == { p \in C : FacetAt(p).Name # "" }
              IN  /\ mergeOut[k].Label =
                        (IF named = {} THEN "" ELSE FacetAt(FirstOf(named)).Name)
                  /\ mergeOut[k].Hidden = (\E p \in C : FacetAt(p).Hidden)
                  /\ Len(mergeOut[k].Sources) = Cardinality(C)
                  /\ \A n \in 1..Cardinality(C) :
                        mergeOut[k].Sources[n] = sources[NthOf(C, n)[1]]

\* C16 witness: a filter that solr gives without a name and not hidden and
\* eds gives with a name and hidden, ahead of a filter that only solr-images
\* gives.
C16_Witness ==
    /\ mergePc = "merged"
    /\ Len(mergeOut) = 2
    /\ mergeIn["solr"][1].Name = "" /\ ~mergeIn["solr"][1].Hidden
    /\ mergeOut[1].ID = "FilterLanguage"
    /\ mergeOut[1].Label = "Le"
    /\ mergeOut[1].Hidden
    /\ mergeOut[1].Sources = <<"solr", "eds">>
    /\ mergeOut[2].ID = "FilterFormat"
    /\ mergeOut[2].Sources = <<"solr-images">>

\* C17: in each merged filter every distinct bucket value appears once with
\* the sum of its counts over all contributors, and the buckets are in
\* ascending order of value when the chosen sort hint is alpha, otherwise in
\* descending order of count with ties in ascending order of value.
C17_BucketsSummedAndOrdered ==
    mergePc \in {"merged", "remerged"} =>
        \A k \in 1..Len(mergeOut) :
            LET C == ContribsOf(mergeOut[k].ID)
                vals == mergeOut[k].Values
            IN  /\ { vals[i].Value : i \in 1..Len(vals) } = ValuesOf(C)
                /\ Len(vals) = Cardinality(ValuesOf(C))
                /\ \A i \in 1..Len(vals) : vals[i].Count = SumOfValue(C, vals[i].Value)
                /\ \A i, j \in 1..Len(vals) :
                      i < j =>
                        IF ChosenSort(mergeOut[k].ID) = "alpha"
                        THEN ValueLess(vals[i].Value, vals[j].Value)
                        ELSE \/ vals[i].Count > vals[j].Count
                             \/ /\ vals[i].Count = vals[j].Count
                                /\ ValueLess(vals[i].Value, vals[j].Value)

\* C17 witness: solr's {en: MaxCount, de: 1} sorted by count and eds's
\* {en: 1, fr: 1} without a hint merge into [en, de, fr]; by value the list
\* would start with de.
C17_Witness ==
    /\ mergePc = "merged"
    /\ \E k \in 1..Len(mergeOut) :
         /\ mergeOut[k].Sources = <<"solr", "eds">>
         /\ ChosenSort(mergeOut[k].ID) = "count"
         /\ mergeOut[k].Values =
               <<Bucket("en", MaxCount + 1), Bucket("de", 1), Bucket("fr", 1)>>

\* C18 as stated: the merge of the merged catalog is the same catalog: the
\* same filters in the same order with the same labels, hidden flags and
\* buckets.
C18_MergeIdempotent ==
    mergePc = "remerged" =>
        /\ Len(mergeAgain) = Len(mergeOut)
        /\ \A k \in 1..Len(mergeOut) :
              /\ mergeAgain[k].ID = mergeOut[k].ID
              /\ mergeAgain[k].Label = mergeOut[k].Label
              /\ mergeAgain[k].Hidden = mergeOut[k].Hidden
              /\ mergeAgain[k].Values = mergeOut[k].Values

\* C18 amended: the merge of the merged catalog has the same filters in the
\* same order with the same labels, hidden flags, bucket values and counts;
\* the buckets of a filter are in the same order when the sort hint chosen
\* for it was not alpha (the catalog does not carry the hint).
C18_MergeIdempotentButAlphaOrder ==
    mergePc = "remerged" =>
        /\ Len(mergeAgain) = Len(mergeOut)
        /\ \A k \in 1..Len(mergeOut) :
              /\ mergeAgain[k].ID = mergeOut[k].ID
              /\ mergeAgain[k].Label = mergeOut[k].Label
              /\ mergeAgain[k].Hidden = mergeOut[k].Hidden
              /\ Range(mergeAgain[k].Values) = Range(mergeOut[k].Values)
              /\ Len(mergeAgain[k].Values) = Len(mergeOut[k].Values)
              /\ ChosenSort(mergeOut[k].ID) # "alpha" =>
                    mergeAgain[k].Values = mergeOut[k].Values

\* C18 witness: a catalog of two filters, one of three buckets from two
\* contributors sorted by count, merged again into itself.
C18_Witness ==
    /\ mergePc = "remerged"
    /\ Len(mergeOut) = 2
    /\ \E k \in 1..2 :
         /\ Len(mergeOut[k].Sources) = 2
         /\ Len(mergeOut[k].Values) = 3
         /\ ChosenSort(mergeOut[k].ID) # "alpha"
         /\ mergeOut[k].Label # ""
    /\ \A k \in 1..2 :
         /\ mergeAgain[k].ID = mergeOut[k].ID
         /\ mergeAgain[k].Values = mergeOut[k].Values

\* ------------------------------------------------------------------ C14, C15

\* C14: a GetSearchFilters call that runs while refreshCache publishes
\* returns a whole snapshot, the previous one or the new one, never a
\* mixture of the two or a value that was not written whole.
C14_ReadersSeeWholeSnapshots == observed \in snapshots

\* The source kinds a refresh selected: those with a representative pool.
Selected == { i \in 1..Len(sources) : Representative(filterPools, sources[i]) # 0 }

\* C15: a refresh that got a pool set publishes a new snapshot exactly when
\* every source kind it selected (each kind with a representative pool)
\* returned a filter list that is not empty, and else leaves the snapshot
\* as it was.
C15_PublishIffEverySelectedKindAnswered ==
    (filterPools # <<>> /\ refreshResult # "none") =>
        (refreshResult = "published"
            <=> \A i \in Selected :
                   /\ ~filterTask[i].filters.nil
                   /\ Len(filterTask[i].filters.FacetList) > 0)

\* ------------------------------------------------- lookupPools and identify

\* Accept-Language headers of a request: none, en-US, and another language.
AcceptHeaders == {"", "en-US", "fr"}

\* acceptLang of PoolsMiddleware: the header, en-US when there is none.
acceptLang == IF acceptHeader = "" THEN "en-US" ELSE acceptHeader

\* languages of identifyPool: the requested one, then en-US when that is
\* another language.
languages(language) ==
    IF language # "en-US" THEN <<language, "en-US">> ELSE <<language>>

\* What one turn of identifyPool's loop meets: a request that cannot be
\* built, a transport error, or a response with a status and a body that
\* json.Unmarshal accepts or not.
IdentifyOutcomes ==
    { [reqErr |-> TRUE, doErr |-> FALSE, code |-> 0, parses |-> FALSE],
      [reqErr |-> FALSE, doErr |-> TRUE, code |-> 0, parses |-> FALSE],
      [reqErr |-> FALSE, doErr |-> FALSE, code |-> StatusInternalServerError,
       parses |-> TRUE],
      [reqErr |-> FALSE, doErr |-> FALSE, code |-> StatusOK, parses |-> FALSE],
      [reqErr |-> FALSE, doErr |-> FALSE, code |-> StatusOK, parses |-> TRUE] }

\* An identify turn that takes every body that parses, whatever the status.
attemptIdentifiesAnyStatus(o) == ~o.reqErr /\ ~o.doErr /\ o.parses

\* One turn of identifyPool's loop sets identified: the request was built
\* and sent, the status is 200 and the body parses.
attemptIdentifies(o) ==
    IF o.reqErr THEN FALSE
    ELSE IF o.doErr THEN FALSE
    ELSE IF o.code # 200 THEN FALSE
    ELSE o.parses

\* A lookupPools that reports no error when it identified no pool.
lookupFailsNever(ps) == FALSE

\* lookupPools returns its "no pools found" error.
lookupFails(ps) == Len(ps) = 0

\* Requests of the lookup on its own: the default source set, no target and
\* no exclusion.
LookupRequests ==
    { r \in Requests : r.TargetPool = "" /\ r.ExcludePools = {} /\ r.Sources = "" }

InitPools ==
    /\ req \in LookupRequests
    /\ pools = <<>>
    /\ pc = "middleware"
    /\ status = 0
    /\ errMsg = ""
    /\ out = NewSearchResponse
    /\ arrival = <<>>
    /\ outstandingRequests = 0
    /\ contentLanguage = ""
    /\ task = [k \in PoolIdx |-> IdleTask]
    /\ requested = {}
    /\ sug = IdleSug
    /\ SortOff
    /\ MergeOff
    /\ FilterOff
    /\ RestOff
    /\ acceptHeader \in AcceptHeaders
    /\ rows = {}
    /\ idTask = [k \in PoolIdx |-> IdleIdentify]
    /\ idOutstanding = 0
    /\ idPools = <<>>

\* PoolsMiddleware into lookupPools: the registry query, whose error aborts
\* the request with 404, then one identifyPool goroutine per row.
lookupPoolsStart ==
    /\ pc = "middleware"
    /\ \/ /\ status' = StatusNotFound
          /\ pc' = "done"
          /\ UNCHANGED <<rows, idTask, idOutstanding>>
       \/ \E S \in SUBSET PoolIdx :
             /\ rows' = S
             /\ idTask' = [k \in PoolIdx |->
                             IF k \in S THEN [IdleIdentify EXCEPT !.st = "running"]
                             ELSE IdleIdentify]
             /\ idOutstanding' = Cardinality(S)
             /\ pc' = "lookup"
             /\ UNCHANGED status
    /\ UNCHANGED <<acceptHeader, idPools>>
    /\ UNCHANGED <<req, pools, errMsg, out, arrival, outstandingRequests,
                   contentLanguage, task, requested, sug>>
    /\ UNCHANGED <<sortVars, mergeVars, filterVars, restVars>>

\* One turn of identifyPool's loop over languages: the goroutine goes on to
\* its send when the turn identified the pool or was the last one.
identifyPool(k) ==
    /\ idTask[k].st = "running"
    /\ \E o \in IdentifyOutcomes :
         LET n == Len(idTask[k].attempts) + 1
             tgtLanguage == languages(acceptLang)[n]
             ok == attemptIdentifies(o)
         IN  idTask' =
                 [idTask EXCEPT
                    ![k].attempts = Append(@, [tgtLanguage |-> tgtLanguage, o |-> o]),
                    ![k].identified = ok,
                    ![k].st = IF ok \/ n = Len(languages(acceptLang))
                              THEN "sending" ELSE "running"]
    /\ UNCHANGED <<acceptHeader, rows, idOutstanding, idPools>>
    /\ UNCHANGED <<searchVars, sortVars, mergeVars, filterVars, restVars>>

\* A collection loop that does not count the results it takes.
receiveIdentifyKeepsCount(k) ==
    /\ pc = "lookup"
    /\ idOutstanding > 0
    /\ idTask[k].st = "sending"
    /\ idTask' = [idTask EXCEPT ![k].st = "done"]
    /\ idPools' = IF idTask[k].identified THEN Append(idPools, k) ELSE idPools
    /\ UNCHANGED <<acceptHeader, rows, idOutstanding>>
    /\ UNCHANGED <<searchVars, sortVars, mergeVars, filterVars, restVars>>

\* One turn of lookupPools' collection loop: a result with no error is
\* appended to the pool set.
receiveIdentify(k) ==
    /\ pc = "lookup"
    /\ idOutstanding > 0
    /\ idTask[k].st = "sending"
    /\ idTask' = [idTask EXCEPT ![k].st = "done"]
    /\ idPools' = IF idTask[k].identified THEN Append(idPools, k) ELSE idPools
    /\ idOutstanding' = idOutstanding - 1
    /\ UNCHANGED <<acceptHeader, rows>>
    /\ UNCHANGED <<searchVars, sortVars, mergeVars, filterVars, restVars>>

\* The end of lookupPools and of PoolsMiddleware: 404 on the "no pools
\* found" error, else the pool set goes into the request context.
lookupPoolsEnd ==
    /\ pc = "lookup"
    /\ idOutstanding = 0
    /\ IF lookupFails(idPools)
       THEN /\ status' = StatusNotFound
            /\ pc' = "done"
            /\ UNCHANGED pools
       ELSE /\ pools' = PoolsOfList(idPools)
            /\ pc' = "handler"
            /\ UNCHANGED status
    /\ UNCHANGED <<req, errMsg, out, arrival, outstandingRequests,
                   contentLanguage, task, requested, sug>>
    /\ UNCHANGED <<sortVars, mergeVars, filterVars, identVars, restVars>>

\* A request from the middleware to the start of the fan-out.
NextPools ==
    \/ lookupPoolsStart
    \/ \E k \in PoolIdx : identifyPool(k)
    \/ \E k \in PoolIdx : receiveIdentify(k)
    \/ lookupPoolsEnd
    \/ SearchDispatch

SpecPools == InitPools /\ [][NextPools]_vars

\* ------------------------------------------------------------ C13, C19, C20

\* The identify requests that went out for row k.
Probes(k) ==
    { n \in 1..Len(idTask[k].attempts) : ~idTask[k].attempts[n].o.reqErr }

\* C13: a request answered 400 BadSearch for its invalid query caused no
\* outbound HTTP request: no identify probe, no pool search, no suggestion
\* request.
C13_InvalidQueryNoOutbound ==
    (req.BindOK /\ ~req.QueryValid /\ status = StatusBadRequest /\ errMsg = "BadSearch") =>
        /\ \A k \in PoolIdx : Probes(k) = {}
        /\ requested = {}
        /\ sug.st = "none"

\* An identify response that resolves the identity: the request was sent,
\* the answer is 200 and its body parses.
Resolves(a) == ~a.o.reqErr /\ ~a.o.doErr /\ a.o.code = StatusOK /\ a.o.parses

\* Row k was identified in the requested language or, when that is not
\* en-US and the first attempt failed, in the en-US retry.
IdentifiedInLog(k) ==
    LET a == idTask[k].attempts
    IN  \/ /\ Len(a) >= 1
           /\ a[1].tgtLanguage = acceptLang
           /\ Resolves(a[1])
        \/ /\ acceptLang # "en-US"
           /\ Len(a) = 2
           /\ ~Resolves(a[1])
           /\ a[2].tgtLanguage = "en-US"
           /\ Resolves(a[2])

\* lookupPools has returned.
LookupOver == pc \notin {"middleware", "lookup"}

\* C19: once lookupPools has returned, a registry row's pool is in the pool
\* set iff its identify answered 200 with a body that parses in the
\* requested language or, the requested language not being en-US and the
\* first attempt having failed, in the en-US retry; a row that failed gets
\* the retry before it is dropped, and no pool is in the set twice.
C19_PoolSetIsIdentifiedRows ==
    LookupOver =>
        /\ \A k \in PoolIdx :
              (\E i \in 1..Len(pools) : pools[i] = PoolOf(k))
                  <=> (k \in rows /\ IdentifiedInLog(k))
        /\ \A k \in rows :
              /\ Len(idTask[k].attempts) >= 1
              /\ (~Resolves(idTask[k].attempts[1]) /\ acceptLang # "en-US")
                     => Len(idTask[k].attempts) = 2
        /\ \A i, j \in 1..Len(pools) : pools[i] = pools[j] => i = j

\* A pool set with a pool identified in the en-US retry, a row of the
\* registry having failed both attempts and been dropped.
C19_Witness ==
    /\ pc = "handler"
    /\ acceptLang = "fr"
    /\ \E k \in rows :
          /\ Len(idTask[k].attempts) = 2
          /\ IdentifiedInLog(k)
          /\ \E i \in 1..Len(pools) : pools[i] = PoolOf(k)
    /\ \E k \in rows :
          /\ Len(idTask[k].attempts) = 2
          /\ ~IdentifiedInLog(k)
          /\ \A i \in 1..Len(pools) : pools[i] # PoolOf(k)

\* C20: when lookupPools has returned and no row of the registry was
\* identified (the registry may be empty), the request is over with 404 and
\* nothing of the handler has run: no error message, no search or suggestion
\* goroutine; the handler never runs with an empty pool set.
C20_NoPoolsIs404 ==
    /\ (LookupOver /\ \A k \in rows : ~IdentifiedInLog(k)) =>
          /\ pc = "done"
          /\ status = StatusNotFound
          /\ errMsg = ""
          /\ requested = {}
          /\ sug.st = "none"
          /\ \A k \in PoolIdx : task[k].st = "none"
    /\ pc \in {"handler", "collect"} => Len(pools) > 0
    /\ ~(status = StatusInternalServerError /\ errMsg = "NoPools")

\* A request aborted with 404 after every row of a two-row registry failed
\* to identify, one of them in both languages.
C20_Witness ==
    /\ pc = "done"
    /\ status = StatusNotFound
    /\ Cardinality(rows) = 2
    /\ \A k \in rows : idTask[k].st = "done" /\ ~IdentifiedInLog(k)
    /\ acceptLang = "fr"
    /\ \A k \in rows : Len(idTask[k].attempts) = 2

\* ------------------------------------------------- searchPool on its own

\* Timeouts of svc.HTTPClient and svc.FastHTTPClient, in seconds.
HTTPClientTimeout == 10
FastHTTPClientTimeout == 5

HTTPClient == [name |-> "HTTPClient", Timeout |-> HTTPClientTimeout]
FastHTTPClient == [name |-> "FastHTTPClient", Timeout |-> FastHTTPClientTimeout]

\* Filter groups and sort overrides in one list of a request.
MaxGroups == 2

\* An identify turn that sets IsExternal for an external_hold attribute
\* whether it is supported or not.
isExternalAnySupport(attributes) ==
    \E n \in 1..Len(attributes) : attributes[n].Name = "external_hold"

\* identifyPool's loop over identity.V4ID.Attributes: IsExternal is set when
\* an attribute external_hold is supported.
isExternal(attributes) ==
    \E n \in 1..Len(attributes) :
        attributes[n].Name = "external_hold" /\ attributes[n].Supported

\* The pool identifyPool builds from registry row k and the attributes of
\* its identify answer.
IdentifiedPool(k, attributes) ==
    [ID |-> PoolNames[k], URL |-> PoolURLs[k], PrivateURL |-> PoolPrivateURLs[k],
     Sequence |-> k, Attributes |-> attributes, IsExternal |-> isExternal(attributes)]

\* Attribute lists of an identify answer.
AttributeLists ==
    { <<>>,
      <<[Name |-> "external_hold", Supported |-> TRUE]>>,
      <<[Name |-> "external_hold", Supported |-> FALSE]>>,
      <<[Name |-> "uva_ils", Supported |-> TRUE]>>,
      <<[Name |-> "uva_ils", Supported |-> TRUE],
        [Name |-> "external_hold", Supported |-> TRUE]>> }

\* The facets of the n-th filter group and the sort of the n-th override of
\* a request: each position has its own.
FacetsAt(n) == <<"facet", n>>
SortAt(n) == [SortID |-> "SortDate", Order |-> <<"asc", n>>]

\* Pool ids a filter group or a sort override is addressed to.
GroupPoolIDs == {PoolNames[1], PoolNames[2]}

\* Lists of pool ids, one per group or override.
PoolIDLists == UNION { [1..n -> GroupPoolIDs] : n \in 0..MaxGroups }

\* Client requests: a query, the client's own sort, filter groups and
\* pool_sorting overrides.
ClientRequests ==
    { [Query |-> "keyword:{cats}",
       Sort |-> [SortID |-> "SortTitle", Order |-> <<"asc", 0>>],
       Filters |-> [n \in 1..Len(f) |-> [PoolID |-> f[n], Facets |-> FacetsAt(n)]],
       PoolSort |-> [n \in 1..Len(p) |-> [PoolID |-> p[n], Sort |-> SortAt(n)]]]
      : f \in PoolIDLists, p \in PoolIDLists }

\* The answers of a pool to one search: those of Outcomes, a transport error
\* whose text has both Timeout and connection refused, a 201 and a 500.
SearchOutcomes ==
    Outcomes
    \cup { [kind |-> "error", code |-> 0, body |-> ErrorBody,
            text |-> TimeoutRefusedText],
           [kind |-> "http", code |-> StatusCreated, body |-> ErrorBody,
            text |-> "created"],
           [kind |-> "http", code |-> StatusInternalServerError, body |-> ErrorBody,
            text |-> "solr is down"] }

\* A pool request that keeps every filter group of the pool.
poolReqAllGroups(pool, r) ==
    [Query |-> r.Query,
     Filters |-> SelectSeq(r.Filters, LAMBDA g : g.PoolID = pool.ID),
     Sort |-> IF \E n \in 1..Len(r.PoolSort) : r.PoolSort[n].PoolID = pool.ID
              THEN r.PoolSort[CHOOSE n \in 1..Len(r.PoolSort) :
                        /\ r.PoolSort[n].PoolID = pool.ID
                        /\ \A m \in 1..(n - 1) : r.PoolSort[m].PoolID # pool.ID].Sort
              ELSE [SortID |-> "SortRelevance", Order |-> <<"desc", 0>>],
     PoolSort |-> r.PoolSort]

\* poolReq of searchPool: a copy of the request with Filters the first
\* filter group of the pool, or none, and Sort the first override of the
\* pool, or relevance descending; the copy keeps PoolSort, which
\* json.Marshal writes as pool_sorting.
poolReq(pool, r) ==
    LET FirstOfPool(list) ==
            IF \E n \in 1..Len(list) : list[n].PoolID = pool.ID
            THEN CHOOSE n \in 1..Len(list) :
                     /\ list[n].PoolID = pool.ID
                     /\ \A m \in 1..(n - 1) : list[m].PoolID # pool.ID
            ELSE 0
        f == FirstOfPool(r.Filters)
        p == FirstOfPool(r.PoolSort)
    IN  [Query |-> r.Query,
         Filters |-> IF f = 0 THEN <<>> ELSE <<r.Filters[f]>>,
         Sort |-> IF p = 0 THEN [SortID |-> "SortRelevance", Order |-> <<"desc", 0>>]
                  ELSE r.PoolSort[p].Sort,
         PoolSort |-> r.PoolSort]

\* The client searchPool sends on.
searchClient(pool) == IF pool.IsExternal THEN FastHTTPClient ELSE HTTPClient

InitPoolSearch ==
    /\ SearchOff
    /\ SortOff
    /\ MergeOff
    /\ FilterOff
    /\ IdentOff
    /\ RegistryOff
    /\ SourcesOff
    /\ ConcOff
    /\ psPool \in { IdentifiedPool(k, a) : k \in 1..2, a \in AttributeLists }
    /\ psReq \in ClientRequests
    /\ psOutcome \in SearchOutcomes
    /\ psSent = <<>>
    /\ psResult = <<>>
    /\ psPc = "input"

\* searchPool from its first line to its send on the channel.
SearchPoolCall ==
    /\ psPc = "input"
    /\ psSent' = [url |-> psPool.PrivateURL \o "/api/search",
                  client |-> searchClient(psPool),
                  body |-> poolReq(psPool, psReq)]
    /\ psResult' = searchPool(psPool, psOutcome)
    /\ psPc' = "done"
    /\ UNCHANGED <<psPool, psReq, psOutcome>>
    /\ UNCHANGED <<searchVars, sortVars, mergeVars, filterVars, identVars, registryVars, sourceVars, concVars>>

NextPoolSearch == SearchPoolCall

SpecPoolSearch == InitPoolSearch /\ [][NextPoolSearch]_vars

\* ------------------------------------------------------------ C21, C23, C29

\* The failures of a pool search: the status and the message of the result
\* for a transport error, for an answer that is not 200, and for a 200
\* answer whose body does not parse.
FailureShapedAs(timedOutMessage, offlineMessage, refusedAlso408) ==
    psPc = "done" =>
        /\ (psOutcome.kind = "error" /\ ContainsTimeout(psOutcome.text)
               /\ (refusedAlso408 \/ ~ContainsConnectionRefused(psOutcome.text))) =>
              /\ psResult.StatusCode = StatusRequestTimeout
              /\ psResult.StatusMessage = timedOutMessage
        /\ (psOutcome.kind = "error" /\ ContainsConnectionRefused(psOutcome.text)
               /\ (~refusedAlso408 \/ ~ContainsTimeout(psOutcome.text))) =>
              /\ psResult.StatusCode = StatusServiceUnavailable
              /\ psResult.StatusMessage = offlineMessage
        /\ (psOutcome.kind = "error" /\ ~ContainsTimeout(psOutcome.text)
               /\ ~ContainsConnectionRefused(psOutcome.text)) =>
              /\ psResult.StatusCode = StatusBadRequest
              /\ psResult.StatusMessage = psOutcome.text
        /\ (psOutcome.kind = "http" /\ psOutcome.code # StatusOK) =>
              /\ psResult.StatusCode = psOutcome.code
              /\ psResult.StatusMessage = psOutcome.text
        /\ (psOutcome.kind = "http" /\ psOutcome.code = StatusOK
               /\ ~psOutcome.body.parses) =>
              /\ psResult.StatusCode = StatusInternalServerError
              /\ psResult.StatusMessage = "Malformed search response"

\* C21 as stated: a transport error with Timeout in its text gives 408 and
\* "{private_url} search timed out", one with connection refused gives 503
\* and "{private_url} is offline", another one 400 and its text, an answer
\* that is not 200 its status and body, a 200 answer that does not parse 500
\* and "Malformed search response".
C21_FailureShaping ==
    FailureShapedAs(psPool.PrivateURL \o " search timed out",
                    psPool.PrivateURL \o " is offline", FALSE)

\* C21 as amended: the messages of a timeout and of a refused connection
\* are "{private_url}/api/search timed out" and "{private_url}/api/search
\* refused connection", and an error text that has both Timeout and
\* connection refused counts as a timeout.
C21_FailureShapingWithRequestURL ==
    FailureShapedAs(psPool.PrivateURL \o "/api/search timed out",
                    psPool.PrivateURL \o "/api/search refused connection", TRUE)

\* A result shaped from an error text with both Timeout and connection
\* refused.
C21_Witness ==
    /\ psPc = "done"
    /\ psOutcome.kind = "error"
    /\ psOutcome.text = TimeoutRefusedText
    /\ psResult.StatusCode = StatusRequestTimeout

\* Positions of a list of groups or overrides that are addressed to the pool.
AddressedTo(list, id) == { n \in 1..Len(list) : list[n].PoolID = id }

\* The body's filters are the first filter group of the pool and nothing
\* else; its sort is the first override of the pool or relevance descending.
OwnFiltersAndSort ==
    LET body == psSent.body
        F == AddressedTo(psReq.Filters, psPool.ID)
        P == AddressedTo(psReq.PoolSort, psPool.ID)
    IN  /\ body.Query = psReq.Query
        /\ Len(body.Filters) <= 1
        /\ F = {} => body.Filters = <<>>
        /\ F # {} => /\ Len(body.Filters) = 1
                     /\ \E n \in F : /\ \A m \in F : n <= m
                                     /\ body.Filters[1] = psReq.Filters[n]
        /\ \A n \in 1..Len(body.Filters) : body.Filters[n].PoolID = psPool.ID
        /\ P = {} => body.Sort = [SortID |-> "SortRelevance", Order |-> <<"desc", 0>>]
        /\ P # {} => \E n \in P : /\ \A m \in P : n <= m
                                  /\ body.Sort = psReq.PoolSort[n].Sort

\* C23 as stated: the body sent to pool p has only p's filter group (at
\* most one) and p's sort override or relevance descending, and no filter
\* group and no sort override addressed to another pool is in the body.
C23_OnlyOwnFiltersAndSortSent ==
    psPc = "done" =>
        /\ OwnFiltersAndSort
        /\ \A n \in 1..Len(psSent.body.PoolSort) :
              psSent.body.PoolSort[n].PoolID = psPool.ID

\* C23 as amended: the same for filters and sort, and the body carries the
\* request's pool_sorting list as the client sent it.
C23_OwnFiltersAndSortAllOverridesSent ==
    psPc = "done" =>
        /\ OwnFiltersAndSort
        /\ psSent.body.PoolSort = psReq.PoolSort

\* A body for the first pool made from two filter groups of that pool and
\* from overrides for the other pool and then for this one.
C23_Witness ==
    /\ psPc = "done"
    /\ psPool.ID = PoolNames[1]
    /\ Len(psReq.Filters) = 2
    /\ \A n \in 1..2 : psReq.Filters[n].PoolID = PoolNames[1]
    /\ Len(psReq.PoolSort) = 2
    /\ psReq.PoolSort[1].PoolID = PoolNames[2]
    /\ psReq.PoolSort[2].PoolID = PoolNames[1]
    /\ psSent.body.Sort = SortAt(2)
    /\ psSent.body.Filters = <<psReq.Filters[1]>>

\* C29: a search goes out on the fast client, whose timeout is 5 s, when
\* the attributes of the pool's identify answer have external_hold with
\* supported true, and on the default client, whose timeout is 10 s, when
\* they do not.
C29_FastClientIffExternalHold ==
    psPc = "done" =>
        LET hold == \E n \in 1..Len(psPool.Attributes) :
                        /\ psPool.Attributes[n].Name = "external_hold"
                        /\ psPool.Attributes[n].Supported = TRUE
        IN  /\ psPool.IsExternal <=> hold
            /\ hold => psSent.client.name = "FastHTTPClient" /\ psSent.client.Timeout = 5
            /\ ~hold => psSent.client.name = "HTTPClient" /\ psSent.client.Timeout = 10

\* A search sent on the fast client to a pool whose second attribute is a
\* supported external_hold.
C29_Witness ==
    /\ psPc = "done"
    /\ Len(psPool.Attributes) = 2
    /\ psPool.Attributes[2].Name = "external_hold"
    /\ psSent.client = FastHTTPClient

\* --------------------------------------------- the registration interface

\* Calls of the registration interface.
MaxCalls == 4

\* Private URLs pools register with.
RegURLs == {"pa", "pb"}

\* The public URL a pool reports in its identify answer.
PublicURLOf(url) == "u" \o url

\* Bodies of a healthcheck answer, and strings.Contains(body, "false") on
\* them.
HealthyBody == "{\"solr\":{\"healthy\":true}}"
UnhealthyBody == "{\"solr\":{\"healthy\":false}}"
ContainsFalse(text) == text \in {UnhealthyBody}

\* What GET /healthcheck comes to: a transport error, or a status and a body.
PingOutcomes ==
    { [err |-> TRUE, code |-> 0, body |-> ""],
      [err |-> FALSE, code |-> StatusInternalServerError, body |-> HealthyBody],
      [err |-> FALSE, code |-> StatusOK, body |-> UnhealthyBody],
      [err |-> FALSE, code |-> StatusOK, body |-> HealthyBody] }

\* What GET /identify comes to at registration: a transport error, a status
\* that is not 200, or a 200 answer with the pool's identity.
RegIdentifyOutcomes ==
    { [err |-> TRUE, code |-> 0], [err |-> FALSE, code |-> StatusInternalServerError],
      [err |-> FALSE, code |-> StatusOK] }

\* Outcomes of the two Redis commands of DeRegisterPool.
RedisOutcomes == { [delOK |-> d, sremOK |-> r] : d, r \in BOOLEAN }

\* A Ping that does not look into the body of a 200 answer.
PingIgnoresBody(p, o) ==
    IF o.err THEN [pool |-> [p EXCEPT !.Alive = FALSE], err |-> TRUE]
    ELSE IF o.code # 200 THEN [pool |-> [p EXCEPT !.Alive = FALSE], err |-> TRUE]
    ELSE [pool |-> [p EXCEPT !.Alive = TRUE], err |-> FALSE]

\* Pool.Ping: an error, with Alive false, on a transport error, a status
\* that is not 200 and a body that has "false" in it; else Alive true.
Ping(p, o) ==
    IF o.err THEN [pool |-> [p EXCEPT !.Alive = FALSE], err |-> TRUE]
    ELSE IF o.code # 200 THEN [pool |-> [p EXCEPT !.Alive = FALSE], err |-> TRUE]
    ELSE IF ContainsFalse(o.body) THEN [pool |-> [p EXCEPT !.Alive = FALSE], err |-> TRUE]
    ELSE [pool |-> [p EXCEPT !.Alive = TRUE], err |-> FALSE]

\* Pool.Identify: Alive false on a transport error or a status that is not
\* 200; else name, description and public URL from the answer.
Identify(p, o) ==
    IF o.err \/ o.code # 200 THEN [p EXCEPT !.Alive = FALSE]
    ELSE [p EXCEPT !.Name = "identified", !.Description = "described",
                   !.PublicURL = PublicURLOf(p.PrivateURL)]

\* Decimal text of a pool number.
IDText(n) == CASE n = 1 -> "1" [] n = 2 -> "2" [] n = 3 -> "3" [] n = 4 -> "4"
               [] OTHER -> "5"

\* RegisterPool: status, text and svc.Pools after the call.
registerPool(ps, call) ==
    IF ~call.bindOK
    THEN [status |-> StatusBadRequest, body |-> "bind error", pools |-> ps]
    ELSE LET pinged == Ping([ID |-> "", Name |-> "registered", Description |-> "",
                             PrivateURL |-> call.url, PublicURL |-> "",
                             Alive |-> FALSE], call.ping)
         IN  IF pinged.err
             THEN [status |-> StatusBadRequest, body |-> "Failed ping test", pools |-> ps]
             ELSE LET pool == Identify(pinged.pool, call.identify)
                      isNew == \A n \in 1..Len(ps) : ps[n].PrivateURL # pool.PrivateURL
                      first == CHOOSE n \in 1..Len(ps) :
                                   /\ ps[n].PrivateURL = pool.PrivateURL
                                   /\ \A m \in 1..(n - 1) :
                                         ps[m].PrivateURL # pool.PrivateURL
                  IN  [status |-> StatusOK, body |-> "registered",
                       pools |-> IF isNew
                                 THEN Append(ps, [pool EXCEPT !.ID = IDText(Len(ps) + 1)])
                                 ELSE [ps EXCEPT ![first].Alive = TRUE]]

\* DeRegisterPool: status, text and svc.Pools after the call.
deRegisterPool(ps, call) ==
    IF call.url = ""
    THEN [status |-> StatusBadRequest, body |-> "Missing required url param", pools |-> ps]
    ELSE IF \A n \in 1..Len(ps) : ps[n].PrivateURL # call.url /\ ps[n].PublicURL # call.url
    THEN [status |-> StatusBadRequest, body |-> call.url \o " is not registered",
          pools |-> ps]
    ELSE IF ~call.redis.delOK
    THEN [status |-> StatusInternalServerError, body |-> "redis del error", pools |-> ps]
    ELSE IF ~call.redis.sremOK
    THEN [status |-> StatusInternalServerError, body |-> "redis srem error", pools |-> ps]
    ELSE LET poolIdx == CHOOSE n \in 1..Len(ps) :
                            /\ ps[n].PrivateURL = call.url \/ ps[n].PublicURL = call.url
                            /\ \A m \in 1..(n - 1) :
                                  ps[m].PrivateURL # call.url /\ ps[m].PublicURL # call.url
         IN  [status |-> StatusOK, body |-> "unregistered " \o call.url,
              pools |-> SubSeq(ps, 1, poolIdx - 1) \o SubSeq(ps, poolIdx + 1, Len(ps))]

InitRegistry ==
    /\ SearchOff
    /\ SortOff
    /\ MergeOff
    /\ FilterOff
    /\ IdentOff
    /\ PoolSearchOff
    /\ SourcesOff
    /\ ConcOff
    /\ svcPools = <<>>
    /\ regCall = NoCall
    /\ regBefore = <<>>
    /\ regStatus = 0
    /\ regBody = ""
    /\ regCount = 0

\* POST /api/pools/register.
RegisterPool ==
    /\ regCount >= 0
    /\ regCount < MaxCalls
    /\ \E b \in BOOLEAN, u \in RegURLs, p \in PingOutcomes, i \in RegIdentifyOutcomes :
         LET call == [op |-> "register", bindOK |-> b, url |-> u, ping |-> p,
                      identify |-> i, redis |-> <<>>]
             r == registerPool(svcPools, call)
         IN  /\ regCall' = call
             /\ regStatus' = r.status
             /\ regBody' = r.body
             /\ svcPools' = r.pools
    /\ regBefore' = svcPools
    /\ regCount' = regCount + 1
    /\ UNCHANGED <<searchVars, sortVars, mergeVars, filterVars, identVars, poolSearchVars, sourceVars, concVars>>

\* DeRegisterPool: the url parameter names the pool by its private or its
\* public URL.
DeRegisterPool ==
    /\ regCount >= 0
    /\ regCount < MaxCalls
    /\ \E u \in RegURLs \cup { PublicURLOf(x) : x \in RegURLs } \cup {""},
          o \in RedisOutcomes :
         LET call == [op |-> "deregister", bindOK |-> TRUE, url |-> u, ping |-> <<>>,
                      identify |-> <<>>, redis |-> o]
             r == deRegisterPool(svcPools, call)
         IN  /\ regCall' = call
             /\ regStatus' = r.status
             /\ regBody' = r.body
             /\ svcPools' = r.pools
    /\ regBefore' = svcPools
    /\ regCount' = regCount + 1
    /\ UNCHANGED <<searchVars, sortVars, mergeVars, filterVars, identVars, poolSearchVars, sourceVars, concVars>>

NextRegistry ==
    \/ RegisterPool
    \/ DeRegisterPool

SpecRegistry == InitRegistry /\ [][NextRegistry]_vars

\* ----------------------------------------------------------------------- C22

\* C22: a RegisterPool call whose ping failed (a transport error, a status
\* that is not 200, or a body with an unhealthy component) is answered with
\* a failure status, and svc.Pools is what it was when the call came in.
C22_FailedPingLeavesPoolsUnchanged ==
    (regCall.op = "register" /\ regCall.bindOK
        /\ (regCall.ping.err \/ regCall.ping.code # StatusOK
               \/ regCall.ping.body = UnhealthyBody)) =>
        /\ regStatus = StatusBadRequest
        /\ regBody = "Failed ping test"
        /\ svcPools = regBefore

\* A registration refused for an unhealthy component while a pool is
\* registered under the same private URL.
C22_Witness ==
    /\ regCall.op = "register"
    /\ regCall.bindOK
    /\ ~regCall.ping.err
    /\ regCall.ping.code = StatusOK
    /\ regCall.ping.body = UnhealthyBody
    /\ regStatus = StatusBadRequest
    /\ Len(svcPools) = 1
    /\ svcPools[1].PrivateURL = regCall.url

\* ------------------------------------------- the tasks and their coordinators

\* Requests of the search with its pool set given: the default source set
\* and no target, with every exclusion list.
TaskRequests == { r \in Requests : r.TargetPool = "" /\ r.Sources = "" }

\* A search whose pool set the middleware hands over, a request in
\* lookupPools, or the filter cache at its start.
InitTasks ==
    \/ Init /\ req \in TaskRequests
    \/ InitPools /\ acceptHeader # ""
    \/ InitFilters

\* The search from a given pool set, lookupPools with its identify
\* goroutines up to its return, and refreshCache with its getPoolFilters
\* goroutines.
NextTasks ==
    \/ acceptHeader = "" /\ Next
    \/ acceptHeader # "" /\ lookupPoolsStart
    \/ \E k \in PoolIdx : identifyPool(k)
    \/ \E k \in PoolIdx : receiveIdentify(k)
    \/ lookupPoolsEnd
    \/ NextFilters

SpecTasks == InitTasks /\ [][NextTasks]_vars

\* ----------------------------------------------------------------------- C24

\* Goroutines of each kind that run or wait on their send.
SearchPending == { k \in PoolIdx : task[k].st \in {"running", "sending"} }
IdentifyPending == { k \in PoolIdx : idTask[k].st \in {"running", "sending"} }
FilterPending == { i \in 1..Len(sources) : filterTask[i].st \in {"running", "sending"} }

\* C24: each coordinator waits for as many completions as it has goroutines
\* that did not hand theirs over; a goroutine is over only once its one
\* completion was received; and when a coordinator is done (the response
\* sent, lookupPools returned, the refresh over) it took one completion from
\* every goroutine it started and none of them runs or waits on a send.
C24_OneCompletionPerTask ==
    /\ pc = "collect" => outstandingRequests = Cardinality(SearchPending)
    /\ \A k \in PoolIdx :
          task[k].st = "done" => \E i \in 1..Len(out.Results) : out.Results[i] = task[k].res
    /\ sug.st = "done" => pc = "done"
    /\ pc = "done" =>
          /\ SearchPending = {}
          /\ sug.st \in {"none", "done"}
          /\ Len(out.Results) = Cardinality({ k \in PoolIdx : task[k].st = "done" })
          /\ status = StatusOK => sug.st = "done"
    /\ pc = "lookup" => idOutstanding = Cardinality(IdentifyPending)
    /\ \A k \in PoolIdx : idTask[k].st # "none" => k \in rows
    /\ Len(idPools) <= Cardinality({ k \in PoolIdx : idTask[k].st = "done" })
    /\ pc \in {"handler", "done"} =>
          /\ IdentifyPending = {}
          /\ idOutstanding = 0
    /\ refreshPc = "collect" => filterOutstanding = Cardinality(FilterPending)
    /\ Cardinality(DOMAIN filterResps)
          <= Cardinality({ i \in 1..Len(sources) : filterTask[i].st = "done" })
    /\ refreshPc \in {"sleep", "store", "storing"} =>
          /\ FilterPending = {}
          /\ filterOutstanding = 0

\* A refresh over after three getPoolFilters goroutines, one of which had
\* nothing to send but its empty response.
C24_Witness ==
    /\ refreshPc = "sleep"
    /\ \A i \in 1..Len(sources) : filterTask[i].st = "done"
    /\ \E i \in 1..Len(sources) : filterTask[i].filters.nil
    /\ \E i \in 1..Len(sources) : ~filterTask[i].filters.nil

\* ----------------------------------------------------------------------- C25

\* The content_language values of the collected results that are not
\* empty, in arrival order.
NonEmptyLanguages(results) ==
    SelectSeq([i \in 1..Len(results) |-> results[i].ContentLanguage],
              LAMBDA l : l # "")

\* C25: the Content-Language of a search response is the content_language
\* of the first result, in arrival order, that has one, and it is not empty
\* when at least one pool answered with success.
C25_ContentLanguageOfFirstSuccess ==
    (pc = "done" /\ status = StatusOK) =>
        /\ contentLanguage = IF NonEmptyLanguages(arrival) = <<>> THEN ""
                             ELSE Head(NonEmptyLanguages(arrival))
        /\ (\E i \in 1..Len(arrival) : arrival[i].StatusCode = StatusOK)
              => contentLanguage # ""

\* ----------------------------------------------------------------------- C26

\* The results of a list, as a set.
ResultSet(results) == { results[i] : i \in 1..Len(results) }

\* The step in which getSuggestions ends: one value is put on the channel
\* and nothing of the response changes.
SuggestionSent ==
    (sug.st = "running" /\ sug'.st # "running") =>
        /\ sug'.st = "sending"
        /\ sug'.val \in {<<"suggestion">>, <<>>}
        /\ UNCHANGED <<pc, status, out, outstandingRequests, arrival>>

\* The step in which the coordinator takes the value: all N pool results
\* are in, and the response is a 200 with these results and their
\* warnings, whatever the value is.
SuggestionRead ==
    (sug.st # "done" /\ sug'.st = "done") =>
        /\ sug.st = "sending"
        /\ outstandingRequests = 0
        /\ Len(out.Results) = Cardinality(Dispatched(req, pools))
        /\ out'.Suggestions = sug.val
        /\ status' = StatusOK
        /\ Len(out'.Results) = Len(out.Results)
        /\ ResultSet(out'.Results) = ResultSet(out.Results)
        /\ out'.Warnings = out.Warnings
        /\ out'.TotalHits = out.TotalHits

\* C26: getSuggestions puts one value on its channel, the suggestor's list
\* on a 200 with a body that parses and the empty list otherwise; the
\* coordinator reads it after the N pool results, and the status and the
\* pool results of the response are the same whether the suggestor failed
\* or not.
C26_OneSuggestionValueReadLast ==
    [][ /\ \A o \in SuggestorOutcomes :
             getSuggestions(o) = [st |-> "sending",
                                  val |-> IF o = "ok" THEN <<"suggestion">> ELSE <<>>]
        /\ SuggestionSent
        /\ SuggestionRead
        /\ (sug.st = "done" => sug' = sug) ]_vars

\* A 200 with every pool's result and no suggestion: the suggestor failed.
C26_Witness ==
    /\ pc = "done" /\ status = StatusOK
    /\ sug = [st |-> "done", val |-> <<>>]
    /\ out.Suggestions = <<>>
    /\ Len(out.Results) = MaxPools
    /\ \A i \in 1..Len(out.Results) : out.Results[i].StatusCode = StatusOK

\* ----------------------------------------------------------------------- C27

\* C27: the pool set lookupPools returns lists the identified pools by
\* ascending registry sequence, in whatever order the identify probes
\* completed.
C27_PoolSetInSequenceOrder ==
    LookupOver =>
        \A i, j \in 1..Len(pools) : i < j => pools[i].Sequence < pools[j].Sequence

\* ------------------------------------------------- the rows of the registry

\* The join of sources with source_sets for one set name, a row of it:
\* name, public URL, the sequence of source_sets and the enabled flag.  The
\* schema is not part of the program: nothing is assumed of a row.
Sequences == 0..MaxPools

SourceRows ==
    [Name : {"a", "b"}, PublicURL : {"ua", "ub"}, Sequence : Sequences,
     Enabled : BOOLEAN]

RECURSIVE TablesOf(_)
\* The tables of at most n rows.
TablesOf(n) ==
    IF n = 0 THEN {{}}
    ELSE LET T == TablesOf(n - 1)
         IN  T \cup { t \cup {r} : t \in T, r \in SourceRows }

\* The query of lookupPools: where t.name={:set} and s.enabled=true.
selectEnabled(table) == { r \in table : r.Enabled }

\* The pool identifyPool builds from a row: id, public URL and sequence
\* are the row's.
identity(dbp) ==
    [ID |-> dbp.Name, URL |-> dbp.PublicURL,
     PrivateURL |-> "p" \o dbp.Name, Sequence |-> dbp.Sequence]

InitSources ==
    /\ SearchOff
    /\ SortOff
    /\ MergeOff
    /\ FilterOff
    /\ IdentOff
    /\ PoolSearchOff
    /\ RegistryOff
    /\ ConcOff
    /\ dbSources \in TablesOf(MaxPools)
    /\ dbPending = {}
    /\ dbPools = <<>>
    /\ dbPc = "query"

\* q.Rows() and the loop that starts an identifyPool goroutine per row.
lookupRows ==
    /\ dbPc = "query"
    /\ dbPending' = selectEnabled(dbSources)
    /\ dbPc' = "collect"
    /\ UNCHANGED <<dbSources, dbPools>>
    /\ UNCHANGED <<searchVars, sortVars, mergeVars, filterVars, identVars,
                   poolSearchVars, registryVars, concVars>>

\* One identify result received: the pool is appended when it has no error.
collectIdentity(dbp) ==
    /\ dbPc = "collect"
    /\ dbp \in dbPending
    /\ \E identified \in BOOLEAN :
         dbPools' = IF identified THEN Append(dbPools, identity(dbp)) ELSE dbPools
    /\ dbPending' = dbPending \ {dbp}
    /\ UNCHANGED <<dbSources, dbPc>>
    /\ UNCHANGED <<searchVars, sortVars, mergeVars, filterVars, identVars,
                   poolSearchVars, registryVars, concVars>>

\* The return of lookupPools.
lookupRowsEnd ==
    /\ dbPc = "collect"
    /\ dbPending = {}
    /\ dbPc' = "done"
    /\ UNCHANGED <<dbSources, dbPending, dbPools>>
    /\ UNCHANGED <<searchVars, sortVars, mergeVars, filterVars, identVars,
                   poolSearchVars, registryVars, concVars>>

NextSources ==
    \/ lookupRows
    \/ \E dbp \in SourceRows : collectIdentity(dbp)
    \/ lookupRowsEnd

SpecSources == InitSources /\ [][NextSources]_vars

\* ----------------------------------------------------------------------- C28

\* C28: in the pool set lookupPools returns, the ids are pairwise distinct,
\* the public URLs are pairwise distinct, and every pool is a registry row
\* with enabled=true and sequence>0.
C28_PoolSetUniqueEnabledPositive ==
    dbPc = "done" =>
        /\ \A i, j \in 1..Len(dbPools) :
              i # j => /\ dbPools[i].ID # dbPools[j].ID
                       /\ dbPools[i].URL # dbPools[j].URL
        /\ \A i \in 1..Len(dbPools) :
              \E r \in dbSources :
                 /\ identity(r) = dbPools[i]
                 /\ r.Enabled
                 /\ r.Sequence > 0

\* ----------------------------------------------------------------------- C30

\* The warnings of a response that are the target-pool warning.
TargetWarnings(o) ==
    { i \in 1..Len(o.Warnings) : o.Warnings[i] = "TargetPoolUnavailable" }

\* The target is set and is neither the id nor the public URL of a pool of
\* the pool set.
TargetUnknown ==
    /\ req.TargetPool # ""
    /\ \A k \in 1..Len(pools) :
          pools[k].ID # req.TargetPool /\ pools[k].URL # req.TargetPool

\* The request passed the checks ahead of the fan-out.
FanOutStarted == pc = "collect" \/ (pc = "done" /\ status = StatusOK)

\* C30: a search whose target pool is in the pool set under neither its id
\* nor its public URL gets one target-pool warning, and a search whose target
\* is absent or known gets none; the search is still sent to every pool that
\* is not excluded and the response is a 200 with a result per such pool.
C30_UnknownTargetWarnsAndSearches ==
    /\ FanOutStarted =>
          Cardinality(TargetWarnings(out)) = IF TargetUnknown THEN 1 ELSE 0
    /\ (pc = "done" /\ req.BindOK /\ req.QueryValid /\ Len(pools) > 0
          /\ TargetUnknown) =>
          /\ status = StatusOK
          /\ requested = { pools[k].PrivateURL : k \in Dispatched(req, pools) }
          /\ Len(out.Results) = Cardinality(Dispatched(req, pools))

\* A 200 for a target that is in no registry, with the warning and the
\* results of both pools.
C30_Witness ==
    /\ pc = "done" /\ status = StatusOK
    /\ req.TargetPool = "zz"
    /\ out.Warnings = <<"TargetPoolUnavailable">>
    /\ Len(out.Results) = MaxPools
    /\ out.TotalHits > 0

\* ------------------------------------------ by-sequence on a longer list

\* The length of the longer lists: the shortest on which sort.Sort makes its
\* pass with gap 6.
LongLen == 7

\* A by-sequence sort of LongLen results, each of a pool of the pool set or
\* with a pool id that is in no pool set.
InitSortLong ==
    /\ SearchOff
    /\ AuxOff
    /\ sortSt = Strategy("bySequence", "", AllPools)
    /\ sortIn \in [1..LongLen -> NameResults]
    /\ sortOut = <<>>
    /\ sortAgain = <<>>
    /\ sortPc = "input"

SpecSortLong == InitSortLong /\ [][NextSort]_vars

\* ----------------------------------------------------------------------- C31

\* The results of a list with their positions in it.
Positioned(s) == [i \in 1..Len(s) |-> [PoolName |-> s[i].PoolName, pos |-> i]]

\* The pool lookup of bySequence.Less fails for the result.
LookupFails(st, r) == LookupPool(st.pools, r.PoolName) = 0

\* C31: under by-sequence, two results of which one has a pool id that is
\* in no pool of the pool set are in the sorted list in the order in which
\* they were in the list before the sort.
C31_FailedLookupKeepsArrivalOrder ==
    (sortPc # "input" /\ sortSt.kind = "bySequence") =>
        LET sorted == Sort(sortSt, Positioned(sortIn))
        IN  /\ \A k \in 1..Len(sorted) : sorted[k].PoolName = sortOut[k].PoolName
            /\ \A a, b \in 1..Len(sorted) :
                  (a < b /\ (LookupFails(sortSt, sorted[a]) \/ LookupFails(sortSt, sorted[b])))
                      => sorted[a].pos < sorted[b].pos

\* ----------------------------------------------------------------------- C32

\* The positions of the pool set of the refresh whose pool is of the kind.
OfKind(kind) == { k \in 1..Len(filterPools) : filterPools[k].Source = kind }

\* The id of the first pool of the kind in the pool set.
FirstOfKind(kind) ==
    filterPools[CHOOSE k \in OfKind(kind) : \A m \in OfKind(kind) : k <= m].ID

\* C32: a refresh has a getPoolFilters goroutine for a source kind only when
\* the pool set has a pool of that kind, and then for the first such pool in
\* pool-set order; the request that goes out goes to that pool, as
\* GET api/filters for solr and solr-images and as POST api/search/facets
\* for eds.
C32_FirstPoolOfEachKindQueried ==
    \A i \in 1..Len(sources) :
        /\ OfKind(sources[i]) = {} => filterTask[i].st = "none"
        /\ filterTask[i].st # "none" =>
              /\ OfKind(sources[i]) # {}
              /\ filterTask[i].pool = FirstOfKind(sources[i])
        /\ filterTask[i].sent # NoRequest =>
              /\ filterTask[i].sent.pool = FirstOfKind(sources[i])
              /\ sources[i] = "eds" =>
                    /\ filterTask[i].sent.method = "POST"
                    /\ filterTask[i].sent.endpoint = "api/search/facets"
              /\ sources[i] \in {"solr", "solr-images"} =>
                    /\ filterTask[i].sent.method = "GET"
                    /\ filterTask[i].sent.endpoint = "api/filters"

\* A refresh over a pool set with two solr pools and an eds pool: the
\* requests went to the first solr pool and to the eds pool.
C32_Witness ==
    /\ Cardinality(OfKind("solr")) = 2
    /\ filterTask[1].sent.pool = "s1" /\ filterTask[1].sent.method = "GET"
    /\ filterTask[3].sent.pool = "e1" /\ filterTask[3].sent.method = "POST"

\* ----------------------------------------------------------------------- C33

\* Filter ids as pools name them without the prefix.
BareIDs == {"Language", "Format", "Subject"} \cup includeFilters

\* The id is the prefix Filter followed by a name, itself prefixed or not.
BeginsWithFilter(id) ==
    \E x \in BareIDs \cup { "Filter" \o y : y \in BareIDs } : id = "Filter" \o x

\* The id has the prefix twice.
PrefixDoubled(id) == \E x \in BareIDs : id = "FilterFilter" \o x

\* C33: every filter id of a catalog a refresh publishes begins with Filter
\* and has the prefix once, and a filter that an eds pool contributed to has
\* an id of the allow-list, with the prefix.
C33_PrefixedIDsAndEdsAllowList ==
    \A snapshot \in snapshots : \A k \in 1..Len(snapshot) :
        /\ BeginsWithFilter(snapshot[k].ID)
        /\ ~PrefixDoubled(snapshot[k].ID)
        /\ (\E n \in 1..Len(snapshot[k].Sources) : snapshot[k].Sources[n] = "eds")
              => snapshot[k].ID \in { "Filter" \o x : x \in includeFilters }

\* A published catalog with a filter that the solr pool sent with the prefix
\* and the eds pool without it.
C33_Witness ==
    /\ refreshResult = "published"
    /\ \E k \in 1..Len(currentFilters.array) :
          /\ currentFilters.array[k].ID = "FilterLanguage"
          /\ currentFilters.array[k].Sources = <<"solr", "solr-images", "eds">>

\* ----------------------------------------------------------------------- C34

\* C34: a refresh that goes on to publish has, from every source kind it
\* started a goroutine for, a filter list that is not empty once the eds
\* allow-list has been applied.
C34_PublishedFromNonEmptyLists ==
    refreshPc \in {"store", "storing"} =>
        \A i \in 1..Len(sources) :
            filterTask[i].st # "none" =>
                /\ sources[i] \in DOMAIN filterResps
                /\ Len(filterResps[sources[i]]) > 0

\* ----------------------------------------------------------------------- C35

\* What the cache holds: the value a read of f.currentFilters gives.
StoredSnapshot == ReadSlice(currentFilters)

\* A step of the cache and of its readers: the cache changes only in the
\* assignment that ends a refresh which got a filter list from every source
\* kind; a refresh that aborts leaves it as it was; and an answer of
\* GetSearchFilters is what the cache holds at that moment.
SnapshotStep ==
    /\ currentFilters' # currentFilters =>
          /\ refreshPc \in {"store", "storing"}
          /\ Cardinality(DOMAIN filterResps) = Len(sources)
    /\ (refreshResult' = "aborted" /\ refreshPc # refreshPc') =>
          currentFilters' = currentFilters
    /\ observed' # observed => observed' = StoredSnapshot

\* C35: the snapshot starts as the empty list and changes only at the end
\* of a refresh that succeeded; a refresh that fails at any step leaves it
\* unchanged; and GetSearchFilters can answer in every state, a refresh
\* under way or not, with what the cache holds.
C35_SnapshotChangesOnlyOnSuccess ==
    /\ currentFilters = Slice(<<>>)
    /\ [][SnapshotStep]_vars
    /\ [](ENABLED GetSearchFilters)

\* A second refresh aborted and the catalog of the first is still the one
\* GetSearchFilters answers with.
C35_Witness ==
    /\ refreshCount = 2
    /\ refreshPc = "sleep"
    /\ refreshResult = "aborted"
    /\ Len(currentFilters.array) > 0
    /\ observed = currentFilters.array

\* ----------------------------------------------------------------------- C36

\* C36: the first refresh starts, every refresh that started comes to its
\* end, published or aborted, and after the end of a refresh, whichever way
\* it ended, the next one starts: in the end every refresh the model counts
\* has started and has ended.
C36_RefreshesGoOn == <>[](refreshCount = MaxRefresh /\ refreshPc = "sleep")

\* A refresh that started after one that published nothing, with a filter
\* list from every source kind on its way to the coordinator.
C36_Witness ==
    /\ refreshCount = 2
    /\ refreshPc = "collect"
    /\ snapshots = {<<>>}
    /\ \A i \in 1..Len(sources) :
          filterTask[i].st = "sending" /\ ~filterTask[i].filters.nil

\* ------------------------------------------------- two requests at a time

\* Two search requests that the server handles in goroutines of their own.
ConcIDs == {"r1", "r2"}

\* One channel for all requests, made with the service.
makeChanShared(r, kind) == [owner |-> "svc", kind |-> kind]

\* channel := make(chan *v4api.PoolResult) and sugChannel := make(chan
\* []v4api.Suggestion) in Search: a channel of the request that runs the
\* statement.
makeChan(r, kind) == [owner |-> r, kind |-> kind]

NoChan == [owner |-> "", kind |-> ""]

InitConc ==
    /\ SearchOff
    /\ SortOff
    /\ MergeOff
    /\ FilterOff
    /\ IdentOff
    /\ PoolSearchOff
    /\ RegistryOff
    /\ SourcesOff
    /\ concReq = [r \in ConcIDs |->
                    [pc |-> "handler", pools |-> {}, channel |-> NoChan,
                     sugChannel |-> NoChan, outstandingRequests |-> 0,
                     results |-> {}, suggestions |-> {}]]
    /\ concTask = [r \in ConcIDs |-> [k \in 0..MaxPools |-> [st |-> "none", channel |-> NoChan]]]

\* Search of request r up to its collection loop: the pool set of its
\* context, its two channels, its getSuggestions goroutine and a searchPool
\* goroutine per pool, each given the channel of r.
SearchDispatchOf(r) ==
    /\ concReq[r].pc = "handler"
    /\ \E ps \in (SUBSET PoolIdx) \ {{}} :
         /\ concReq' = [concReq EXCEPT ![r] =
                          [@ EXCEPT !.pc = "collect", !.pools = ps,
                                    !.channel = makeChan(r, "results"),
                                    !.sugChannel = makeChan(r, "suggestions"),
                                    !.outstandingRequests = Cardinality(ps)]]
         /\ concTask' = [concTask EXCEPT ![r] =
                           [k \in 0..MaxPools |->
                              IF k = 0
                              THEN [st |-> "running", channel |-> makeChan(r, "suggestions")]
                              ELSE IF k \in ps
                              THEN [st |-> "running", channel |-> makeChan(r, "results")]
                              ELSE [st |-> "none", channel |-> NoChan]]]
    /\ UNCHANGED <<searchVars, sortVars, mergeVars, filterVars, identVars,
                   poolSearchVars, registryVars, sourceVars>>

\* A goroutine of request r, getSuggestions (k = 0) or searchPool, comes to
\* its send.
GoroutineSendsOf(r, k) ==
    /\ concTask[r][k].st = "running"
    /\ concTask' = [concTask EXCEPT ![r][k].st = "sending"]
    /\ UNCHANGED concReq
    /\ UNCHANGED <<searchVars, sortVars, mergeVars, filterVars, identVars,
                   poolSearchVars, registryVars, sourceVars>>

\* poolResponse := <-channel in request r: the rendezvous with a searchPool
\* goroutine, of whichever request, that sends on the channel r reads.
ReceivePoolResultOf(r, from, k) ==
    /\ concReq[r].pc = "collect"
    /\ concReq[r].outstandingRequests > 0
    /\ k # 0
    /\ concTask[from][k].st = "sending"
    /\ concTask[from][k].channel = concReq[r].channel
    /\ concTask' = [concTask EXCEPT ![from][k].st = "done"]
    /\ concReq' = [concReq EXCEPT ![r] =
                     [@ EXCEPT !.results = @ \cup {[req |-> from, pool |-> k]},
                               !.outstandingRequests = @ - 1]]
    /\ UNCHANGED <<searchVars, sortVars, mergeVars, filterVars, identVars,
                   poolSearchVars, registryVars, sourceVars>>

\* out.Suggestions = <-sugChannel in request r, and its response.
SearchRespondOf(r, from) ==
    /\ concReq[r].pc = "collect"
    /\ concReq[r].outstandingRequests = 0
    /\ concTask[from][0].st = "sending"
    /\ concTask[from][0].channel = concReq[r].sugChannel
    /\ concTask' = [concTask EXCEPT ![from][0].st = "done"]
    /\ concReq' = [concReq EXCEPT ![r] =
                     [@ EXCEPT !.suggestions = {from}, !.pc = "done"]]
    /\ UNCHANGED <<searchVars, sortVars, mergeVars, filterVars, identVars,
                   poolSearchVars, registryVars, sourceVars>>

NextConc ==
    \/ \E r \in ConcIDs : SearchDispatchOf(r)
    \/ \E r \in ConcIDs, k \in 0..MaxPools : GoroutineSendsOf(r, k)
    \/ \E r, from \in ConcIDs, k \in PoolIdx : ReceivePoolResultOf(r, from, k)
    \/ \E r, from \in ConcIDs : SearchRespondOf(r, from)

SpecConc == InitConc /\ [][NextConc]_vars

\* ----------------------------------------------------------------------- C37

\* C37: whatever the interleaving of two requests, every pool result in a
\* request's response was produced by a searchPool goroutine of that request
\* for a pool of its pool set, the suggestions are those of its own
\* getSuggestions goroutine, the request counts down only on its own
\* results, and its response has one result per pool of its pool set.
C37_RequestsIsolated ==
    \A r \in ConcIDs :
        /\ \A x \in concReq[r].results : x.req = r /\ x.pool \in concReq[r].pools
        /\ concReq[r].suggestions \subseteq {r}
        /\ concReq[r].pc \in {"collect", "done"} =>
              concReq[r].outstandingRequests
                 = Cardinality(concReq[r].pools) - Cardinality(concReq[r].results)
        /\ concReq[r].pc = "done" =>
              /\ concReq[r].results = { [req |-> r, pool |-> k] : k \in concReq[r].pools }
              /\ concReq[r].suggestions = {r}

\* Both requests search the same pool; one has its result for that pool and
\* the other's goroutine for it waits on its send.
C37_Witness ==
    /\ concReq["r1"].pc = "collect" /\ concReq["r2"].pc = "collect"
    /\ [req |-> "r1", pool |-> 1] \in concReq["r1"].results
    /\ concTask["r2"][1].st = "sending"
    /\ concTask["r2"][0].st = "sending"

\* ------------------------------------------------ C38: by-confidence order

\* Less(i, j) of the strategy on the positions of a list.
LessAt(st, s, i, j) == Less(st, s[i], s[j])

\* The pairs of positions (i, j) of the list with Less(i, j).
LessPairs(st, s) ==
    UNION { IF LessAt(st, s, p[1], p[2]) THEN {p} ELSE {}
            : p \in (1..Len(s)) \X (1..Len(s)) }

\* The pairs of positions neither of which goes ahead of the other.
TiedPairs(st, s) ==
    LET lt == LessPairs(st, s)
    IN  UNION { IF p \notin lt /\ <<p[2], p[1]>> \notin lt THEN {p} ELSE {}
                : p \in (1..Len(s)) \X (1..Len(s)) }

\* The relation on positions is transitive.
Transitive(rel) ==
    \A p, q \in rel : p[2] = q[1] => <<p[1], q[2]>> \in rel

\* C38: on a list in which at most one result has the target URL as its
\* service_url, byConfidence.Less is a strict weak order: Less(i,j) and
\* Less(j,i) are never both true for i # j, Less is transitive, and so is
\* being tied.
C38_ByConfidenceStrictWeakOrder ==
    (sortPc = "sorted"
     /\ sortSt.kind = "byConfidence"
     /\ Cardinality(TargetMatches(sortSt, sortIn)) <= 1)
    => LET lt == LessPairs(sortSt, sortIn)
       IN  /\ \A p \in lt : p[1] # p[2] => <<p[2], p[1]>> \notin lt
           /\ Transitive(lt)
           /\ LET tied == TiedPairs(sortSt, sortIn) IN Transitive(tied)

\* C38 witness: a sorted list of three with the target, the weakest of the
\* three, in the middle of the input: it goes ahead of both others, the
\* first goes ahead of the last on max_score alone, and the sort has put
\* the three in that order.
C38_Witness ==
    /\ sortPc = "sorted"
    /\ sortSt.kind = "byConfidence"
    /\ Len(sortIn) = 3
    /\ TargetMatches(sortSt, sortIn) = {2}
    /\ ConfidenceIndex(sortIn[1]) = ConfidenceIndex(sortIn[3])
    /\ MaxScore(sortIn[1]) > MaxScore(sortIn[3])
    /\ LessAt(sortSt, sortIn, 2, 1)
    /\ LessAt(sortSt, sortIn, 1, 3)
    /\ LessAt(sortSt, sortIn, 2, 3)
    /\ ~LessAt(sortSt, sortIn, 3, 1)
    /\ sortOut = <<sortIn[2], sortIn[1], sortIn[3]>>

\* ------------------------------------------- C39: the registered pools

\* The places of svc.Pools that hold a pool of the private URL.
RegisteredAs(ps, url) == { n \in 1..Len(ps) : ps[n].PrivateURL = url }

\* C39: after any sequence of RegisterPool and DeRegisterPool calls the
\* registered pools have pairwise distinct ids and pairwise distinct
\* private URLs, and a RegisterPool call for a private URL that is
\* registered adds no entry and changes nothing but the Alive mark of the
\* existing one, which it sets.
C39_DistinctIDsAndPrivateURLs ==
    /\ \A i, j \in 1..Len(svcPools) :
          i # j => /\ svcPools[i].ID # svcPools[j].ID
                   /\ svcPools[i].PrivateURL # svcPools[j].PrivateURL
    /\ (regCall.op = "register" /\ regStatus = StatusOK
           /\ RegisteredAs(regBefore, regCall.url) # {})
        => /\ Len(svcPools) = Len(regBefore)
           /\ \E n \in RegisteredAs(regBefore, regCall.url) :
                 svcPools = [regBefore EXCEPT ![n].Alive = TRUE]

====
